---- MODULE Spec2Model ----
(***************************************************************************)
(* Messenger Desktop Client: the host-side IPC mediator (ipc-handlers.ts), *)
(* the tray controller (tray.ts) and the window / login-detection logic of *)
(* main.ts, as one state machine.                                          *)
(*                                                                         *)
(* Time is the host's Date.now() in milliseconds.  Strings are sequences   *)
(* of lexical tokens ("https", "://", "www", ".", "messenger", ...): every *)
(* literal the code compares against is a whole number of tokens, so       *)
(* startsWith / includes / === are computed on the token sequences.        *)
(***************************************************************************)
EXTENDS Integers, Sequences, FiniteSets, TLC

(***************************************************************************)
(* Bounds of the model                                                     *)
(***************************************************************************)
\* the clock stops advancing here
MaxNow == 4000
\* the same, where only the mediator runs
MaxIpcNow == 2000
\* largest unread count a caller passes to the tray
MaxCount == 2
\* did-navigate handlers suspended at the cookie read
MaxInFlight == 2
\* pending redirect timers
MaxTimers == 1
MaxLoginNow == 300000
\* the same, where only the window state is saved
MaxSaveNow == 2000
\* the same, where only the tray runs
MaxTrayNow == 1500

(***************************************************************************)
(* Program constants                                                       *)
(***************************************************************************)
RATE_LIMIT_WINDOW_MS == 1000
RATE_LIMIT_MAX_CALLS == 10
TRAY_UPDATE_DEBOUNCE_MS == 500
WINDOW_STATE_SAVE_DEBOUNCE_MS == 1000
LOGIN_REDIRECT_DELAY_MS == 3000
MAX_UNREAD_COUNT == 9999
MAX_ERROR_MESSAGE_LENGTH == 10000

MESSENGER_URL == <<"https", "://", "www", ".", "messenger", ".", "com">>
FACEBOOK_LOGIN_URL == <<"https", "://", "www", ".", "facebook", ".", "com", "/", "login">>

(***************************************************************************)
(* Strings                                                                 *)
(***************************************************************************)
\* String.prototype.startsWith
StartsWith(s, p) == Len(s) >= Len(p) /\ SubSeq(s, 1, Len(p)) = p

\* String.prototype.includes
Includes(s, p) ==
  \E i \in 1..(Len(s) - Len(p) + 1) : SubSeq(s, i, i + Len(p) - 1) = p

\* new URL(url): the first token is the scheme, "://" follows, the host runs up to the
\* first "/", "?" or "#".  The parse fails (new URL throws) when the string does not
\* have this shape, when the host is empty or when the host holds a space.
HostEnd(s) ==
  IF \E i \in 3..Len(s) : s[i] \in {"/", "?", "#"}
  THEN CHOOSE i \in 3..Len(s) : s[i] \in {"/", "?", "#"} /\ \A j \in 3..(i - 1) : s[j] \notin {"/", "?", "#"}
  ELSE Len(s) + 1

ParseURL(s) ==
  IF /\ Len(s) >= 3
     /\ s[1] \notin {" ", ".", "/", "?", "#", "://"}
     /\ s[2] = "://"
     /\ HostEnd(s) > 3
     /\ \A j \in 3..(HostEnd(s) - 1) : s[j] \notin {" ", "://"}
  THEN [ok |-> TRUE, protocol |-> s[1], hostname |-> SubSeq(s, 3, HostEnd(s) - 1)]
  ELSE [ok |-> FALSE, protocol |-> "", hostname |-> <<>>]

(***************************************************************************)
(* JavaScript values crossing the IPC boundary (the `unknown` payloads)    *)
(***************************************************************************)
JsUndefined == [t |-> "undefined"]
JsNull == [t |-> "null"]
JsBool(b) == [t |-> "boolean", b |-> b]
\* an integer n, or (JsHalf) the non-integer n + 0.5
JsNum(n) == [t |-> "number", n |-> n, frac |-> FALSE]
JsHalf(n) == [t |-> "number", n |-> n, frac |-> TRUE]
JsStr(s) == [t |-> "string", s |-> s]
\* a string of len characters whose content does not matter
JsLongStr(len) == [t |-> "string", s |-> <<"x">>, len |-> len]
JsObj(o) == [t |-> "object", o |-> o]

\* Number.isInteger
IsInteger(v) == v.t = "number" /\ ~v.frac

\* String.prototype.length
StrLen(v) == IF "len" \in DOMAIN v THEN v.len ELSE Len(v.s)

\* obj.key of a payload cast to Record<string, unknown>: undefined when absent
Field(v, key) == IF key \in DOMAIN v.o THEN v.o[key] ELSE JsUndefined

(***************************************************************************)
(* State                                                                   *)
(***************************************************************************)
VARIABLES
  now,             \* Date.now()
  \* ipc-handlers.ts
  rateLimiter,     \* Map<channel, {count, resetTime}>
  minimizeToTray,  \* the minimize-to-tray setting
  listeners,       \* channels on which ipcMain has a listener
  ipcRefs,         \* which of mainWindow, the zoom functions and themeChangeCallback are set
  \* tray.ts
  trayTimers,      \* the pending timers created by updateUnreadCount: [count, at]
  debounceTimeout, \* the handle of the last timer created: <<>> (null) or <<[count, at]>>
  currentState,    \* TrayState {unreadCount, lastUpdate}
  trayReady,       \* tray and tray.ts's mainWindow are set (initializeTray .. destroyTray)
  flashing,        \* flashFrame(true) is in effect
  platform,        \* process.platform
  \* main.ts
  win,             \* the main BrowserWindow
  isQuitting,      \* app.isQuitting
  proc,            \* the host process: "running", "cleaned" (after cleanupApp) or "exited"
  hasLoggedIn,     \* store 'hasLoggedIn' (persisted)
  cookies,         \* names of the cookies of the session for .facebook.com
  navPending,      \* did-navigate handlers suspended at `await cookies.get`
  redirectTimers,  \* deadlines of the pending 3 s redirect timers
  viewDestroyed,   \* view.webContents.isDestroyed()
  \* what the last step was, and what it did outside the state above
  ev,              \* the event handled by the last step
  out,             \* console output and calls to Electron made by the last step
  lastCall,        \* the last call of updateUnreadCount with a valid count: <<>> or <<[count, at]>>
  \* BrowserLogin (one instance)
  browserLogin,    \* its fields loginWindow, timeout, resolvePromise, isCleanedUp, whether
                   \* loadURL is pending, and the extractCookies calls suspended at an await
  blHistory,       \* what the instance did: cleanup bodies run, results the promise was
                   \* resolved with, and the result passed by the first trigger
  \* window-manager.ts
  windowState,     \* store 'windowState' (persisted)
  saveStateTimeout,\* the handle of the last timer of saveWindowState: <<>> (null) or <<deadline>>
  saveTimers,      \* deadlines of the pending timers created by saveWindowState
  winBounds,       \* window.getBounds(): [pos, size] (what it last was, once destroyed)
  displays,        \* work areas of screen.getAllDisplays()
  returned,        \* what the last call of getWindowState returned: <<>> or <<state>>
  \* preload.ts
  lastUnreadCount, \* the count last reported (shared by the observers)
  title,           \* document.title
  domCount,        \* number of elements the DOM scan selectors match
  domInterval,     \* the interval of setupDOMObserver is set
  titleSent,       \* counts sent by the title observer, oldest first (last two kept)
  observers,       \* the current title element and the MutationObservers created by
                   \* setupTitleObserver, oldest first
  focusChangeListeners, \* the Set of focus callbacks, in insertion order
  registrations,   \* the unregister closures the page holds and has not called: [id, cb]
  regCount,        \* number of onFocusChange calls so far
  inFlight         \* messages the host sent to a webContents, not yet received there

ipcVars == <<rateLimiter, minimizeToTray, listeners, ipcRefs>>
trayVars == <<trayTimers, debounceTimeout, currentState, trayReady, flashing, lastCall>>
winVars == <<win, isQuitting>>
loginVars == <<proc, hasLoggedIn, cookies, navPending, redirectTimers, viewDestroyed>>
blVars == <<browserLogin, blHistory>>
wsVars == <<windowState, saveStateTimeout, saveTimers, winBounds, displays, returned>>
plVars == <<lastUnreadCount, title, domCount, domInterval, titleSent, observers>>
fcVars == <<focusChangeListeners, registrations, regCount, inFlight>>
extVars == <<blVars, wsVars, plVars, fcVars>>
mainVars == <<platform, ipcVars, trayVars, winVars, loginVars>>
vars == <<now, platform, ipcVars, trayVars, winVars, loginVars, ev, out, extVars>>

\* One line of console output or one call to Electron, with its string argument
Warn(tag) == [k |-> "console.warn", s |-> <<tag>>, n |-> 0]
Log(tag) == [k |-> "console.log", s |-> <<tag>>, n |-> 0]
Call(name, arg) == [k |-> name, s |-> arg, n |-> 0]
CallN(name, n) == [k |-> name, s |-> <<>>, n |-> n]

\* The event a step handles
Event(op, ch, sender, arg) == [op |-> op, ch |-> ch, sender |-> sender, arg |-> arg]

(***************************************************************************)
(* Channels (shared/types.ts IPC_CHANNELS and the literals of              *)
(* registerIpcHandlers)                                                    *)
(***************************************************************************)
UNREAD_COUNT_UPDATE == "messenger:unread-count"
ERROR_REPORT == "error:report"
WINDOW_MINIMIZE == "window:minimize"
WINDOW_MAXIMIZE == "window:maximize"
WINDOW_CLOSE == "window:close"
APP_READY == "app:ready"
THEME_CHANGE == "theme:change"

\* The channels registerIpcHandlers registers
RegisteredChannels ==
  {UNREAD_COUNT_UPDATE, ERROR_REPORT, WINDOW_MINIMIZE, WINDOW_MAXIMIZE, WINDOW_CLOSE,
   "zoom-in", "zoom-out", "zoom-reset", APP_READY, THEME_CHANGE,
   "open-external", "minimize-to-tray"}

validThemes == {"dark", "light", "lush-forest", "contrast", "desert", "electric"}

Platforms == {"win32", "darwin", "linux"}

(***************************************************************************)
(* Rate limiting                                                           *)
(***************************************************************************)
\* rateLimiter.set(channel, w)
MapSet(m, key, w) == [c \in DOMAIN m \cup {key} |-> IF c = key THEN w ELSE m[c]]

\* isRateLimited with the cap compared by > : an 11th call gets through
isRateLimitedOffByOne(channel) ==
  IF channel \notin DOMAIN rateLimiter \/ now > rateLimiter[channel].resetTime
  THEN [blocked |-> FALSE,
        map |-> MapSet(rateLimiter, channel,
                       [count |-> 1, resetTime |-> now + RATE_LIMIT_WINDOW_MS]),
        out |-> <<>>]
  ELSE IF rateLimiter[channel].count > RATE_LIMIT_MAX_CALLS
  THEN [blocked |-> TRUE, map |-> rateLimiter, out |-> <<Warn("[IPC] Rate limited")>>]
  ELSE [blocked |-> FALSE,
        map |-> [rateLimiter EXCEPT ![channel].count = @ + 1],
        out |-> <<>>]

\* isRateLimited(channel): whether the call is blocked, and the map afterwards
isRateLimited(channel) ==
  IF channel \notin DOMAIN rateLimiter \/ now > rateLimiter[channel].resetTime
  THEN [blocked |-> FALSE,
        map |-> MapSet(rateLimiter, channel,
                       [count |-> 1, resetTime |-> now + RATE_LIMIT_WINDOW_MS]),
        out |-> <<>>]
  ELSE IF rateLimiter[channel].count >= RATE_LIMIT_MAX_CALLS
  THEN [blocked |-> TRUE, map |-> rateLimiter, out |-> <<Warn("[IPC] Rate limited")>>]
  ELSE [blocked |-> FALSE,
        map |-> [rateLimiter EXCEPT ![channel].count = @ + 1],
        out |-> <<>>]

(***************************************************************************)
(* Sender validation                                                       *)
(***************************************************************************)
\* event.sender: a live webContents, a destroyed one, or null
Senders == {"alive", "destroyed", "null"}

\* isValidSender(event): its verdict and its console output
isValidSender(sender) ==
  IF sender = "null" THEN [ok |-> FALSE, out |-> <<Warn("[IPC] Rejected: null sender")>>]
  ELSE IF sender = "destroyed"
  THEN [ok |-> FALSE, out |-> <<Warn("[IPC] Rejected: destroyed sender")>>]
  ELSE [ok |-> TRUE, out |-> <<>>]

(***************************************************************************)
(* Validators (shared/types.ts)                                            *)
(***************************************************************************)
\* isValidUnreadCount without the upper bound
isValidUnreadCountNoUpperBound(value) ==
  /\ value.t = "number"
  /\ IsInteger(value)
  /\ value.n >= 0

isValidUnreadCount(value) ==
  /\ value.t = "number"
  /\ IsInteger(value)
  /\ value.n >= 0
  /\ value.n <= MAX_UNREAD_COUNT

isValidErrorReportPayload(value) ==
  /\ value.t = "object"
  /\ Field(value, "message").t = "string"
  /\ StrLen(Field(value, "message")) > 0
  /\ StrLen(Field(value, "message")) <= MAX_ERROR_MESSAGE_LENGTH
  /\ Field(value, "stack").t \in {"undefined", "string"}
  /\ Field(value, "context").t = "string"
  /\ Field(value, "context").s \in {<<"dom-observer">>, <<"title-observer">>, <<"ipc">>, <<"unknown">>}
  /\ Field(value, "timestamp").t = "number"

(***************************************************************************)
(* Tray: the debounced unread count                                        *)
(***************************************************************************)
NoTimer == <<>>

\* The pending timers when the previous one is not cleared
ClearDebounceNothing == trayTimers

\* clearTimeout(debounceTimeout)
ClearDebounce == IF debounceTimeout = NoTimer THEN trayTimers ELSE trayTimers \ {debounceTimeout[1]}

\* updateUnreadCount without the idempotency check
updateUnreadCountNoIdempotency(count) ==
  IF ~IsInteger(count) \/ count.n < 0
  THEN [timers |-> trayTimers, handle |-> debounceTimeout,
        out |-> <<Warn("[Tray] Invalid unread count")>>]
  ELSE LET t == [count |-> count.n, at |-> now + TRAY_UPDATE_DEBOUNCE_MS]
       IN [timers |-> ClearDebounce \cup {t}, handle |-> <<t>>, out |-> <<>>]

\* updateUnreadCount(count): the timers and the handle afterwards, and its console output
updateUnreadCount(count) ==
  IF ~IsInteger(count) \/ count.n < 0
  THEN [timers |-> trayTimers, handle |-> debounceTimeout,
        out |-> <<Warn("[Tray] Invalid unread count")>>]
  ELSE IF count.n = currentState.unreadCount
  THEN [timers |-> trayTimers, handle |-> debounceTimeout, out |-> <<>>]
  ELSE LET t == [count |-> count.n, at |-> now + TRAY_UPDATE_DEBOUNCE_MS]
       IN [timers |-> ClearDebounce \cup {t}, handle |-> <<t>>, out |-> <<>>]

\* performUnreadUpdate(count): TrayState and the flash afterwards, and its console output
\* and Electron calls.  tray.ts uses its mainWindow without an isDestroyed() check: a
\* call on a destroyed BrowserWindow throws and ends the callback there.
performUnreadUpdate(count) ==
  LET previousCount == currentState.unreadCount
      state == [unreadCount |-> count, lastUpdate |-> now]
      trayOut == IF trayReady
                 THEN <<CallN("tray.setToolTip", count)>>
                      \o (IF platform # "darwin" THEN <<CallN("tray.setImage", count)>> ELSE <<>>)
                 ELSE <<>>
      head == <<Log("[Tray] Unread count")>> \o trayOut
      thrown == <<Call("throw", <<"Object has been destroyed">>)>>
      badge == IF platform = "darwin" THEN <<CallN("app.dock.setBadge", count)>>
               ELSE IF platform = "win32" /\ trayReady
               THEN (IF win.destroyed THEN thrown ELSE <<CallN("mainWindow.setOverlayIcon", count)>>)
               ELSE <<>>
  IN
  IF badge = thrown
  THEN [state |-> state, flashing |-> flashing, out |-> head \o badge]
  ELSE IF ~(count > previousCount /\ trayReady)
  THEN [state |-> state, flashing |-> flashing, out |-> head \o badge]
  ELSE IF win.destroyed
  THEN [state |-> state, flashing |-> flashing, out |-> head \o badge \o thrown]
  ELSE IF win.focused
  THEN [state |-> state, flashing |-> flashing, out |-> head \o badge]
  ELSE IF platform = "darwin"
  THEN [state |-> state, flashing |-> flashing,
        out |-> head \o badge \o <<Call("app.dock.bounce", <<"informational">>)>>]
  ELSE [state |-> state, flashing |-> TRUE,
        out |-> head \o badge \o <<Call("mainWindow.flashFrame", <<"true">>)>>]

\* stopFlashing that stops the flash of the Windows taskbar only
stopFlashingWin32Only ==
  IF ~trayReady \/ platform # "win32" THEN [flashing |-> flashing, out |-> <<>>]
  ELSE IF win.destroyed
  THEN [flashing |-> flashing, out |-> <<Call("throw", <<"Object has been destroyed">>)>>]
  ELSE [flashing |-> FALSE, out |-> <<Call("mainWindow.flashFrame", <<"false">>)>>]

\* stopFlashing(): the flash afterwards and its Electron calls
stopFlashing ==
  IF ~trayReady \/ platform = "darwin" THEN [flashing |-> flashing, out |-> <<>>]
  ELSE IF win.destroyed
  THEN [flashing |-> flashing, out |-> <<Call("throw", <<"Object has been destroyed">>)>>]
  ELSE [flashing |-> FALSE, out |-> <<Call("mainWindow.flashFrame", <<"false">>)>>]

\* The last call of updateUnreadCount that passed its input validation
NoteCall(count) ==
  IF IsInteger(count) /\ count.n >= 0 THEN <<[count |-> count.n, at |-> now]>> ELSE lastCall

(***************************************************************************)
(* IPC handlers.  Each is the handler's effect on the state it owns and    *)
(* its console output and Electron calls (out').                           *)
(***************************************************************************)
handlerVars == <<minimizeToTray, trayTimers, debounceTimeout, lastCall, win>>

\* mainWindow && !mainWindow.isDestroyed() in ipc-handlers.ts
WindowUsable == ipcRefs.mainWindow /\ ~win.destroyed

handleUnreadCountUpdate(payload) ==
  IF payload.t # "object"
  THEN out' = <<Warn("[IPC] Invalid unread count payload type")>> /\ UNCHANGED handlerVars
  ELSE IF ~isValidUnreadCount(Field(payload, "count"))
  THEN out' = <<Warn("[IPC] Invalid unread count value")>> /\ UNCHANGED handlerVars
  ELSE LET r == updateUnreadCount(Field(payload, "count")) IN
       /\ trayTimers' = r.timers
       /\ debounceTimeout' = r.handle
       /\ lastCall' = NoteCall(Field(payload, "count"))
       /\ out' = r.out
       /\ UNCHANGED <<extVars, minimizeToTray, win>>

handleErrorReport(payload) ==
  /\ out' = IF ~isValidErrorReportPayload(payload)
            THEN <<Warn("[IPC] Invalid error report payload")>>
            ELSE <<[k |-> "console.error", s |-> Field(payload, "context").s, n |-> 0]>>
  /\ UNCHANGED handlerVars

handleWindowMinimize ==
  IF WindowUsable
  THEN /\ win' = [win EXCEPT !.minimized = TRUE]
       /\ out' = <<Call("mainWindow.minimize", <<>>)>>
       /\ UNCHANGED <<extVars, minimizeToTray, trayTimers, debounceTimeout, lastCall>>
  ELSE out' = <<>> /\ UNCHANGED handlerVars

handleWindowMaximize ==
  IF WindowUsable
  THEN /\ win' = [win EXCEPT !.maximized = ~win.maximized]
       /\ out' = <<Call(IF win.maximized THEN "mainWindow.unmaximize" ELSE "mainWindow.maximize", <<>>)>>
       /\ UNCHANGED <<extVars, minimizeToTray, trayTimers, debounceTimeout, lastCall>>
  ELSE out' = <<>> /\ UNCHANGED handlerVars

\* mainWindow.close() asks Electron for a close; the 'close' event it raises is Close below
handleWindowClose ==
  /\ out' = IF WindowUsable THEN <<Call("mainWindow.close", <<>>)>> ELSE <<>>
  /\ UNCHANGED handlerVars

\* handleZoomIn, handleZoomOut, handleZoomReset: fn is zoomInFunc, zoomOutFunc or zoomResetFunc
handleZoom(fn) ==
  /\ out' = IF ipcRefs.zoom THEN <<Call(fn, <<>>)>> ELSE <<>>
  /\ UNCHANGED handlerVars

handleAppReady ==
  /\ out' = <<Log("[IPC] Preload signaled ready")>>
  /\ UNCHANGED handlerVars

handleThemeChange(payload) ==
  /\ out' = IF payload.t # "object"
            THEN <<Warn("[IPC] Invalid theme change payload")>>
            ELSE LET theme == Field(payload, "theme") IN
                 IF ~(theme.t = "string" /\ \E name \in validThemes : theme.s = <<name>>)
                 THEN <<Warn("[IPC] Invalid theme value")>>
                 ELSE <<Log("[IPC] Theme change requested")>>
                      \o (IF ipcRefs.theme THEN <<Call("themeChangeCallback", theme.s)>> ELSE <<>>)
  /\ UNCHANGED handlerVars

handleOpenExternal(url) ==
  /\ out' = IF url.t # "string" \/ url.s = <<>>
            THEN <<Warn("[IPC] Invalid URL for open-external")>>
            ELSE IF ~StartsWith(url.s, <<"https", "://">>)
            THEN <<Warn("[IPC] Only HTTPS URLs are allowed")>>
            ELSE <<Log("[IPC] Opening external URL"), Call("shell.openExternal", url.s)>>
  /\ UNCHANGED handlerVars

handleMinimizeToTray(enabled) ==
  IF enabled.t # "boolean"
  THEN out' = <<Warn("[IPC] Invalid minimize-to-tray value")>> /\ UNCHANGED handlerVars
  ELSE /\ minimizeToTray' = enabled.b
       /\ out' = <<Log("[IPC] Minimize to tray setting changed")>>
       /\ UNCHANGED <<extVars, trayTimers, debounceTimeout, lastCall, win>>

\* The handler registerIpcHandlers attaches to a channel
Handler(channel, payload) ==
  CASE channel = UNREAD_COUNT_UPDATE -> handleUnreadCountUpdate(payload)
    [] channel = ERROR_REPORT -> handleErrorReport(payload)
    [] channel = WINDOW_MINIMIZE -> handleWindowMinimize
    [] channel = WINDOW_MAXIMIZE -> handleWindowMaximize
    [] channel = WINDOW_CLOSE -> handleWindowClose
    [] channel = "zoom-in" -> handleZoom("zoomInFunc")
    [] channel = "zoom-out" -> handleZoom("zoomOutFunc")
    [] channel = "zoom-reset" -> handleZoom("zoomResetFunc")
    [] channel = APP_READY -> handleAppReady
    [] channel = THEME_CHANGE -> handleThemeChange(payload)
    [] channel = "open-external" -> handleOpenExternal(payload)
    [] channel = "minimize-to-tray" -> handleMinimizeToTray(payload)

\* createHandler with the rate limiter consulted before the sender
createHandlerRateFirst(channel, sender, payload) ==
  LET r == isRateLimited(channel) IN
  /\ rateLimiter' = r.map
  /\ IF r.blocked
     THEN out' = r.out /\ UNCHANGED handlerVars
     ELSE IF ~isValidSender(sender).ok
     THEN out' = isValidSender(sender).out /\ UNCHANGED handlerVars
     ELSE Handler(channel, payload)

\* createHandler whose rate limiter counts only the messages the handler did not
\* reject with a warning
createHandlerCountsValidOnly(channel, sender, payload) ==
  IF ~isValidSender(sender).ok
  THEN /\ out' = isValidSender(sender).out
       /\ UNCHANGED <<extVars, rateLimiter, handlerVars>>
  ELSE LET r == isRateLimited(channel) IN
       /\ IF r.blocked
          THEN out' = r.out /\ UNCHANGED handlerVars
          ELSE Handler(channel, payload)
       /\ rateLimiter' = IF \E i \in DOMAIN out' : out'[i].k = "console.warn"
                         THEN rateLimiter ELSE r.map

\* createHandler(channel, handler): the wrapped listener, run on one message
createHandler(channel, sender, payload) ==
  IF ~isValidSender(sender).ok
  THEN /\ out' = isValidSender(sender).out
       /\ UNCHANGED <<extVars, rateLimiter, handlerVars>>
  ELSE LET r == isRateLimited(channel) IN
       /\ rateLimiter' = r.map
       /\ IF r.blocked
          THEN out' = r.out /\ UNCHANGED handlerVars
          ELSE Handler(channel, payload)

\* ipcMain delivers one message of the channel to its listener
IpcMessage(channel, sender, payload) ==
  /\ proc # "exited"
  /\ channel \in listeners
  /\ ev' = Event("ipc", channel, sender, payload)
  /\ createHandler(channel, sender, payload)
  /\ UNCHANGED <<extVars, now, platform, listeners, ipcRefs, currentState, trayReady, flashing,
                 isQuitting, loginVars>>

(***************************************************************************)
(* Values of the window manager and of the preload script                  *)
(***************************************************************************)
\* shared/types.ts DEFAULT_WINDOW_STATE; an optional field that is undefined is <<>>,
\* one that holds v is <<v>>
DEFAULT_WINDOW_STATE ==
  [x |-> <<>>, y |-> <<>>, width |-> 1200, height |-> 800,
   isMaximized |-> FALSE, isFullScreen |-> FALSE]

Rect(x, y, width, height) == [x |-> x, y |-> y, width |-> width, height |-> height]

\* Work areas of the displays that may be attached
PrimaryDisplay == Rect(0, 0, 1920, 1080)
SecondDisplay == Rect(1920, 0, 1280, 1024)

\* document.title as a sequence of tokens: a run of digits, or any other text
Lit(s) == [t |-> "lit", s |-> s]
Digits(n) == [t |-> "digits", n |-> n]

(***************************************************************************)
(* Initial state: a fresh install, right after initializeApp               *)
(***************************************************************************)
Init ==
  /\ now = 0
  /\ platform \in Platforms
  /\ rateLimiter = [c \in {} |-> 0]
  /\ minimizeToTray = FALSE
  /\ listeners = RegisteredChannels
  /\ ipcRefs = [mainWindow |-> TRUE, zoom |-> TRUE, theme |-> TRUE]
  /\ trayTimers = {}
  /\ debounceTimeout = NoTimer
  /\ currentState = [unreadCount |-> 0, lastUpdate |-> 0]
  /\ trayReady = TRUE
  /\ flashing = FALSE
  /\ win = [destroyed |-> FALSE, visible |-> TRUE, minimized |-> FALSE,
            maximized |-> FALSE, focused |-> TRUE]
  /\ isQuitting = FALSE
  /\ proc = "running"
  /\ hasLoggedIn = FALSE
  /\ cookies = {}
  /\ navPending = <<>>
  /\ redirectTimers = <<>>
  /\ viewDestroyed = FALSE
  /\ ev = Event("launch", "", "", JsUndefined)
  /\ out = <<Call("loadURL", FACEBOOK_LOGIN_URL)>>
  /\ lastCall = <<>>
  /\ browserLogin = [loginWindow |-> "null", timeout |-> <<>>, resolvePromise |-> FALSE,
                     isCleanedUp |-> FALSE, loading |-> FALSE, extracting |-> 0]
  /\ blHistory = [started |-> FALSE, cleanups |-> 0, resolved |-> <<>>, first |-> <<>>]
  /\ windowState = DEFAULT_WINDOW_STATE
  /\ saveStateTimeout = <<>>
  /\ saveTimers = {}
  /\ winBounds = [pos |-> <<100, 100>>, size |-> <<1200, 800>>]
  /\ displays = {PrimaryDisplay}
  /\ returned = <<DEFAULT_WINDOW_STATE>>
  /\ lastUnreadCount = 0
  /\ title = <<Lit("Messenger")>>
  /\ domCount = 0
  /\ domInterval = FALSE
  /\ titleSent = <<0>>
  /\ observers = [element |-> 1,
                  title |-> <<[el |-> 1, connected |-> TRUE]>>,
                  head |-> <<[el |-> 1, obs |-> 1, connected |-> TRUE]>>]
  /\ focusChangeListeners = <<>>
  /\ registrations = {}
  /\ regCount = 0
  /\ inFlight = <<>>

(***************************************************************************)
(* Time                                                                    *)
(***************************************************************************)
\* The deadlines of all pending timers
Deadlines ==
  {t.at : t \in trayTimers} \cup {redirectTimers[i] : i \in DOMAIN redirectTimers}
    \cup {browserLogin.timeout[i] : i \in DOMAIN browserLogin.timeout}
    \cup saveTimers

MinOf(S) == CHOOSE x \in S : \A y \in S : x <= y

\* The clock advances by d, or up to the next timer deadline if that comes first;
\* it does not advance while a timer is due.
Tick(d, horizon) ==
  /\ \A t \in Deadlines : now < t
  /\ now + d <= horizon
  /\ now' = MinOf({now + d} \cup Deadlines)
  /\ ev' = Event("tick", "", "", JsUndefined)
  /\ out' = <<>>
  /\ UNCHANGED <<extVars, platform, ipcVars, trayVars, winVars, loginVars>>

(***************************************************************************)
(* The mediator on its own: messages on two channels, one whose handler    *)
(* validates its payload and one without a payload                         *)
(***************************************************************************)
IpcChannels == {"minimize-to-tray", APP_READY}

\* The first argument of a message of the channel
Payloads(channel) ==
  CASE channel = "open-external" ->
         {JsUndefined, JsStr(<<>>),
          JsStr(<<"http", "://", "example", ".", "com">>),
          JsStr(<<"https", "://", "example", ".", "com">>),
          JsStr(<<"not", " ", "a", " ", "url">>),
          JsStr(<<"https", "://">>)}
    [] channel = "minimize-to-tray" -> {JsBool(TRUE), JsBool(FALSE), JsStr(<<"true">>)}
    [] OTHER -> {JsUndefined}

InitWindows == Init /\ platform = "win32"

NextIpc ==
  \/ Tick(RATE_LIMIT_WINDOW_MS, MaxIpcNow)
  \/ \E channel \in IpcChannels, sender \in Senders :
       \E payload \in Payloads(channel) : IpcMessage(channel, sender, payload)

SpecIpc == InitWindows /\ [][NextIpc]_vars

(***************************************************************************)
(* The open-external channel                                               *)
(***************************************************************************)
NextExt ==
  \/ Tick(RATE_LIMIT_WINDOW_MS, MaxIpcNow)
  \/ \E sender \in Senders, payload \in Payloads("open-external") :
       IpcMessage("open-external", sender, payload)

SpecExt == InitWindows /\ [][NextExt]_vars

(***************************************************************************)
(* Properties of the mediator                                              *)
(***************************************************************************)
RateLimitedOut == <<Warn("[IPC] Rate limited")>>

\* The window of the channel is open and has not elapsed
InWindow(channel) ==
  channel \in DOMAIN rateLimiter /\ now <= rateLimiter[channel].resetTime

\* C1: on every channel at most 10 messages are accepted per window: within a window
\* each accepted message raises the count by one, a message that finds the count at
\* 10 is rejected and changes nothing, and the first message after the window has
\* elapsed is accepted and opens a fresh window of 1000 ms with count 1.
C1_RateLimitWindow ==
  [][(ev'.op = "ipc" /\ ev'.sender = "alive") =>
       LET ch == ev'.ch IN
       /\ (InWindow(ch) /\ rateLimiter[ch].count >= RATE_LIMIT_MAX_CALLS)
            => (out' = RateLimitedOut /\ rateLimiter' = rateLimiter)
       /\ (InWindow(ch) /\ rateLimiter[ch].count < RATE_LIMIT_MAX_CALLS)
            => /\ out' # RateLimitedOut
               /\ rateLimiter'[ch] = [count |-> rateLimiter[ch].count + 1,
                                      resetTime |-> rateLimiter[ch].resetTime]
       /\ ~InWindow(ch)
            => /\ out' # RateLimitedOut
               /\ rateLimiter'[ch] = [count |-> 1, resetTime |-> now + RATE_LIMIT_WINDOW_MS]
       /\ rateLimiter'[ch].count <= RATE_LIMIT_MAX_CALLS
       /\ \A c \in DOMAIN rateLimiter \ {ch} : rateLimiter'[c] = rateLimiter[c]
    ]_vars

\* C1 witness: an 11th message of a window has just been rejected
C1_Witness ==
  /\ ev.op = "ipc" /\ ev.sender = "alive"
  /\ out = RateLimitedOut
  /\ InWindow(ev.ch)
  /\ rateLimiter[ev.ch].count = RATE_LIMIT_MAX_CALLS

\* C4: the gates are passed in the order sender, rate limiter, payload validation.
\* A message from a null or destroyed sender only logs the rejection and changes no
\* state, also when the channel is over its limit; a rate-limited message only logs
\* the rate limit and reaches neither the handler nor its validation, also when its
\* payload is invalid; every other message reaches the handler.
C4_GateOrder ==
  [][ev'.op = "ipc" =>
       LET ch == ev'.ch
           over == InWindow(ch) /\ rateLimiter[ch].count >= RATE_LIMIT_MAX_CALLS
       IN
       /\ ev'.sender = "null"
            => out' = <<Warn("[IPC] Rejected: null sender")>>
               /\ UNCHANGED <<extVars, now, platform, ipcVars, trayVars, winVars, loginVars>>
       /\ ev'.sender = "destroyed"
            => out' = <<Warn("[IPC] Rejected: destroyed sender")>>
               /\ UNCHANGED <<extVars, now, platform, ipcVars, trayVars, winVars, loginVars>>
       /\ (ev'.sender = "alive" /\ over)
            => out' = RateLimitedOut
               /\ UNCHANGED <<extVars, now, platform, ipcVars, trayVars, winVars, loginVars>>
       /\ (ev'.sender = "alive" /\ ~over)
            => /\ rateLimiter' # rateLimiter
               /\ ch = "minimize-to-tray"
                    => IF ev'.arg.t = "boolean"
                       THEN minimizeToTray' = ev'.arg.b
                            /\ out' = <<Log("[IPC] Minimize to tray setting changed")>>
                       ELSE minimizeToTray' = minimizeToTray
                            /\ out' = <<Warn("[IPC] Invalid minimize-to-tray value")>>
               /\ ch = APP_READY => out' = <<Log("[IPC] Preload signaled ready")>>
    ]_vars

\* C4 witness: a message from a destroyed sender arrived on a channel that is over its
\* limit, and only the sender rejection was logged
C4_Witness ==
  /\ ev.op = "ipc" /\ ev.sender = "destroyed"
  /\ out = <<Warn("[IPC] Rejected: destroyed sender")>>
  /\ InWindow(ev.ch)
  /\ rateLimiter[ev.ch].count = RATE_LIMIT_MAX_CALLS

\* C5: on the open-external channel shell.openExternal is called only with a URL
\* that parses and whose scheme is https.
C5_OnlyValidHttpsOpened ==
  (ev.op = "ipc" /\ ev.ch = "open-external") =>
    \A i \in DOMAIN out :
      out[i].k = "shell.openExternal"
        => ParseURL(out[i].s).ok /\ ParseURL(out[i].s).protocol = "https"

(***************************************************************************)
(* The tray controller on its own                                          *)
(***************************************************************************)
\* A caller (the mediator, after its validation) calls updateUnreadCount(count)
UpdateUnreadCountCall(count) ==
  /\ proc # "exited"
  /\ ev' = Event("updateUnreadCount", "", "", count)
  /\ LET r == updateUnreadCount(count) IN
     /\ trayTimers' = r.timers
     /\ debounceTimeout' = r.handle
     /\ out' = r.out
  /\ lastCall' = NoteCall(count)
  /\ UNCHANGED <<extVars, now, platform, ipcVars, currentState, trayReady, flashing, winVars, loginVars>>

\* A pending debounce timer is due and its callback runs performUnreadUpdate(count)
DebounceFire ==
  /\ proc # "exited"
  /\ \E t \in trayTimers :
       /\ t.at <= now
       /\ trayTimers' = trayTimers \ {t}
       /\ ev' = Event("debounce-fire", "", "", JsNum(t.count))
       /\ LET r == performUnreadUpdate(t.count) IN
          /\ currentState' = r.state
          /\ flashing' = r.flashing
          /\ out' = r.out
  /\ UNCHANGED <<extVars, now, platform, ipcVars, debounceTimeout, trayReady, lastCall, winVars, loginVars>>

\* sendToRenderer(channel, ...args)
sendToRenderer(channel) ==
  IF WindowUsable THEN <<Call("mainWindow.webContents.send", <<channel>>)>> ELSE <<>>

\* window.on('focus') / window.on('blur'): notifyFocusChange(focused), on the host's state
FocusChangeHost(focused) ==
  /\ proc # "exited"
  /\ ~win.destroyed
  /\ win.focused # focused
  /\ win' = [win EXCEPT !.focused = focused]
  /\ ev' = Event("focus-change", "", "", JsBool(focused))
  /\ IF focused
     THEN /\ flashing' = stopFlashing.flashing
          /\ out' = stopFlashing.out \o sendToRenderer("window:focus-changed")
     ELSE /\ flashing' = flashing
          /\ out' = sendToRenderer("window:focus-changed")
  /\ UNCHANGED <<now, platform, ipcVars, trayTimers, debounceTimeout, currentState, trayReady,
                 lastCall, isQuitting, loginVars>>

\* The same, the sent message not followed to its renderer
FocusChange(focused) == FocusChangeHost(focused) /\ UNCHANGED extVars

\* The counts callers pass: integers from -1 to MaxCount and one non-integer
CallCounts == {JsNum(n) : n \in -1..MaxCount} \cup {JsHalf(1)}

NextTray ==
  \/ Tick(TRAY_UPDATE_DEBOUNCE_MS \div 2, MaxTrayNow)
  \/ \E count \in CallCounts : UpdateUnreadCountCall(count)
  \/ DebounceFire
  \/ \E focused \in BOOLEAN : FocusChange(focused)

SpecTray == Init /\ [][NextTray]_vars

(***************************************************************************)
(* Properties of the tray controller                                       *)
(***************************************************************************)
\* C2: when a debounce timer fires and the last call of the burst came before the
\* deadline, the update renders the value of that last call, 500 ms after it.
C2_DebounceRendersLastCall ==
  (ev.op = "debounce-fire" /\ lastCall # <<>> /\ lastCall[1].at < now) =>
    /\ currentState.unreadCount = lastCall[1].count
    /\ now = lastCall[1].at + TRAY_UPDATE_DEBOUNCE_MS

\* C3: updateUnreadCount(n) with n the stored unreadCount schedules and cancels no
\* timer, leaves TrayState and the flash as they are and makes no call at all.
C3_SameCountIsNoOp ==
  [][(/\ ev'.op = "updateUnreadCount"
      /\ IsInteger(ev'.arg)
      /\ ev'.arg.n = currentState.unreadCount)
       => /\ UNCHANGED <<trayTimers, debounceTimeout, currentState, flashing, trayReady, win>>
          /\ out' = <<>>
    ]_vars

\* C3 witness: the stored count was passed again while a timer for another count is pending
C3_Witness ==
  /\ ev.op = "updateUnreadCount"
  /\ IsInteger(ev.arg)
  /\ ev.arg.n = currentState.unreadCount
  /\ \E t \in trayTimers : t.count # currentState.unreadCount

\* The last step asked for the user's attention: flashFrame(true) or a dock bounce
FlashTriggered ==
  \E i \in DOMAIN out :
    out[i] \in {Call("mainWindow.flashFrame", <<"true">>),
                Call("app.dock.bounce", <<"informational">>)}

\* C18: when a debounced update fires, the attention flash is triggered iff the
\* window is not focused and the new count is greater than the count stored
\* before; and when the window gains focus no flash stays active, on any platform
\* and whatever the count is.
C18_FlashOnIncreaseUnfocused ==
  [][/\ ev'.op = "debounce-fire"
          => (FlashTriggered' <=> (~win.focused /\ ev'.arg.n > currentState.unreadCount))
     /\ (ev'.op = "focus-change" /\ win'.focused) => ~flashing'
    ]_vars

\* C18 witness: an update to a greater count fired while the window was not
\* focused, and the taskbar is flashing
C18_Witness ==
  /\ ev.op = "debounce-fire"
  /\ ~win.focused
  /\ flashing
  /\ FlashTriggered
  /\ platform = "linux"

(***************************************************************************)
(* Window-close policy and application lifecycle (main.ts)                 *)
(***************************************************************************)
\* The close listener with the quitting flag left out of its test
closeHandlerIgnoresQuitting ==
  IF minimizeToTray
  THEN [prevent |-> TRUE,
        out |-> <<Call("event.preventDefault", <<>>), Call("window.hide", <<>>),
                  Log("[Window] Minimized to tray")>>]
  ELSE [prevent |-> FALSE, out |-> <<Log("[Window] Closing app")>>]

\* window.on('close', ...): whether the close is prevented, and its calls and output
closeHandler ==
  IF minimizeToTray /\ ~isQuitting
  THEN [prevent |-> TRUE,
        out |-> <<Call("event.preventDefault", <<>>), Call("window.hide", <<>>),
                  Log("[Window] Minimized to tray")>>]
  ELSE [prevent |-> FALSE, out |-> <<Log("[Window] Closing app")>>]

\* A close request of the main window: the close button, mainWindow.close(), or
\* the application closing its windows on quit.  A close that is not prevented
\* destroys the window.
CloseRequestHost ==
  /\ proc # "exited"
  /\ ~win.destroyed
  /\ ev' = Event("close", "", "", JsUndefined)
  /\ out' = closeHandler.out
  /\ win' = IF closeHandler.prevent
            THEN [win EXCEPT !.visible = FALSE, !.focused = FALSE]
            ELSE [win EXCEPT !.destroyed = TRUE, !.visible = FALSE, !.focused = FALSE]
  /\ UNCHANGED <<now, platform, ipcVars, trayVars, isQuitting, loginVars>>

\* The same, the close listener of the window-state manager left aside
CloseRequest == CloseRequestHost /\ UNCHANGED extVars

\* showWindow() of tray.ts (tray click, "Show Messenger")
ShowWindow ==
  /\ proc # "exited"
  /\ trayReady
  /\ ev' = Event("show-window", "", "", JsUndefined)
  /\ IF win.destroyed
     THEN out' = <<Call("throw", <<"Object has been destroyed">>)>> /\ win' = win
     ELSE /\ out' = <<Call("mainWindow.show", <<>>), Call("mainWindow.focus", <<>>)>>
          /\ win' = [win EXCEPT !.visible = TRUE, !.minimized = FALSE, !.focused = TRUE]
  /\ UNCHANGED <<extVars, now, platform, ipcVars, trayVars, isQuitting, loginVars>>

\* The before-quit listener that flips the flag instead of setting it
beforeQuitToggles == ~isQuitting

\* app.on('before-quit', ...): the value it leaves in app.isQuitting
beforeQuit == TRUE

\* app.quit() was called (tray or menu "Quit", window-all-closed): before-quit is emitted
BeforeQuit ==
  /\ proc = "running"
  /\ isQuitting' = beforeQuit
  /\ ev' = Event("before-quit", "", "", JsUndefined)
  /\ out' = <<>>
  /\ UNCHANGED <<extVars, now, platform, ipcVars, trayVars, win, loginVars>>

\* The channels unregisterIpcHandlers removes the listeners of
UnregisteredChannels ==
  {UNREAD_COUNT_UPDATE, ERROR_REPORT, WINDOW_MINIMIZE, WINDOW_MAXIMIZE, WINDOW_CLOSE,
   "zoom-in", "zoom-out", "zoom-reset", APP_READY, THEME_CHANGE}

\* app.on('quit', ...): cleanupApp() = unregisterIpcHandlers() and destroyTray()
AppQuit ==
  /\ proc = "running"
  /\ isQuitting
  /\ win.destroyed
  /\ proc' = "cleaned"
  /\ listeners' = listeners \ UnregisteredChannels
  /\ ipcRefs' = [mainWindow |-> FALSE, zoom |-> FALSE, theme |-> FALSE]
  /\ rateLimiter' = [c \in {} |-> 0]
  /\ trayTimers' = ClearDebounce
  /\ debounceTimeout' = NoTimer
  /\ trayReady' = FALSE
  /\ ev' = Event("quit", "", "", JsUndefined)
  /\ out' = <<Log("[IPC] Handlers unregistered"), Log("[Tray] Destroyed")>>
  /\ UNCHANGED <<extVars, now, platform, minimizeToTray, currentState, flashing, lastCall, winVars,
                 hasLoggedIn, cookies, navPending, redirectTimers, viewDestroyed>>

\* The process ends (after quit, or killed): its windows, timers and suspended
\* callbacks are gone; the store and the session's cookies stay on disk.
ProcessExit ==
  /\ proc # "exited"
  /\ proc' = "exited"
  /\ trayTimers' = {}
  /\ navPending' = <<>>
  /\ redirectTimers' = <<>>
  /\ viewDestroyed' = TRUE
  /\ win' = [win EXCEPT !.destroyed = TRUE, !.visible = FALSE, !.focused = FALSE]
  /\ ev' = Event("exit", "", "", JsUndefined)
  /\ out' = <<>>
  /\ UNCHANGED <<extVars, now, platform, ipcVars, debounceTimeout, currentState, trayReady, flashing,
                 lastCall, isQuitting, hasLoggedIn, cookies>>

\* initializeApp with the first-launch test left out
launchUrlAlwaysLogin == FACEBOOK_LOGIN_URL

\* initializeApp: the URL the embedded view is loaded with
launchUrl == IF ~hasLoggedIn THEN FACEBOOK_LOGIN_URL ELSE MESSENGER_URL

\* The application is started again: a new process with the module state of a
\* fresh start, the persisted store and the session's cookies
Launch ==
  /\ proc = "exited"
  /\ proc' = "running"
  /\ rateLimiter' = [c \in {} |-> 0]
  /\ minimizeToTray' = FALSE
  /\ listeners' = RegisteredChannels
  /\ ipcRefs' = [mainWindow |-> TRUE, zoom |-> TRUE, theme |-> TRUE]
  /\ trayTimers' = {}
  /\ debounceTimeout' = NoTimer
  /\ currentState' = [unreadCount |-> 0, lastUpdate |-> 0]
  /\ trayReady' = TRUE
  /\ flashing' = FALSE
  /\ win' = [destroyed |-> FALSE, visible |-> TRUE, minimized |-> FALSE,
             maximized |-> FALSE, focused |-> TRUE]
  /\ isQuitting' = FALSE
  /\ navPending' = <<>>
  /\ redirectTimers' = <<>>
  /\ viewDestroyed' = FALSE
  /\ lastCall' = <<>>
  /\ ev' = Event("launch", "", "", JsUndefined)
  /\ out' = <<Call("loadURL", launchUrl)>>
  /\ UNCHANGED <<extVars, now, platform, hasLoggedIn, cookies>>

NextWin ==
  \/ Tick(RATE_LIMIT_WINDOW_MS, MaxIpcNow)
  \/ \E payload \in Payloads("minimize-to-tray") : IpcMessage("minimize-to-tray", "alive", payload)
  \/ CloseRequest
  \/ ShowWindow
  \/ BeforeQuit
  \/ AppQuit
  \/ ProcessExit

SpecWin == InitWindows /\ [][NextWin]_vars

(***************************************************************************)
(* Properties of the window-close policy                                   *)
(***************************************************************************)
Prevented == \E i \in DOMAIN out : out[i].k = "event.preventDefault"

\* C6: a close request is intercepted (default prevented, window hidden and alive)
\* iff minimize-to-tray is on and the quitting flag is not set; otherwise it is
\* not intercepted and the window closes.
C6_ClosePolicy ==
  [][ev'.op = "close" =>
       IF minimizeToTray /\ ~isQuitting
       THEN /\ Prevented'
            /\ ~win'.destroyed
            /\ ~win'.visible
            /\ proc' = proc
       ELSE /\ ~Prevented'
            /\ win'.destroyed
    ]_vars

\* C6 witness: a close request was intercepted and the window is hidden, not destroyed
C6_Witness ==
  /\ ev.op = "close"
  /\ Prevented
  /\ minimizeToTray /\ ~isQuitting
  /\ ~win.destroyed /\ ~win.visible

\* C7: before-quit sets the quitting flag, no step unsets it, and once it is set a
\* close request is not intercepted whatever the minimize-to-tray setting is.
C7_QuittingMonotonic ==
  [][/\ ev'.op = "before-quit" => isQuitting'
     /\ isQuitting => isQuitting'
     /\ (isQuitting /\ ev'.op = "close") => (~Prevented' /\ win'.destroyed)
    ]_vars

\* C7 witness: with the flag set and minimize-to-tray on, a close request closed the window
C7_Witness ==
  /\ ev.op = "close"
  /\ isQuitting /\ minimizeToTray
  /\ ~Prevented
  /\ win.destroyed

(***************************************************************************)
(* Login detection (main.ts, the did-navigate listener of the view)        *)
(***************************************************************************)
FACEBOOK_HOME == <<"https", "://", "www", ".", "facebook", ".", "com">>

\* The URLs the embedded view navigates to
NavUrls ==
  {FACEBOOK_LOGIN_URL,
   FACEBOOK_HOME \o <<"/">>,
   FACEBOOK_HOME \o <<"/", "?", "sk">>,
   MESSENGER_URL \o <<"/">>}

\* The cookies the session may hold for .facebook.com
CookieNames == {"c_user", "xs"}

\* isOnHomepage that only knows the URL without the trailing slash
isOnHomepageNoSlash(url) == url = FACEBOOK_HOME

isOnHomepage(url) ==
  \/ url = FACEBOOK_HOME \o <<"/">>
  \/ url = FACEBOOK_HOME
  \/ StartsWith(url, FACEBOOK_HOME \o <<"/", "?">>)

hasFacebookSession == \E name \in cookies : name = "c_user" \/ name = "xs"

\* The listener up to its await: whether it suspends at the cookie read
Suspends(url) ==
  ~hasLoggedIn /\ Includes(ParseURL(url).hostname, <<"facebook", ".", "com">>)

\* The end of the listener, written as store.set('hasLoggedIn', onMessenger)
markLoggedInAssigns(url, captured) ==
  Includes(ParseURL(url).hostname, <<"messenger", ".", "com">>)

\* The end of the listener: the value of the store's hasLoggedIn afterwards.
\* captured is the value the listener read when it started.
markLoggedIn(url, captured) ==
  IF Includes(ParseURL(url).hostname, <<"messenger", ".", "com">>) /\ ~captured
  THEN TRUE
  ELSE hasLoggedIn

\* did-navigate of the embedded view: the listener runs up to its await or,
\* when it does not await, to its end.  new URL(url) is its first statement, outside
\* any try: a URL that does not parse ends the listener with the TypeError.
DidNavigate(url) ==
  /\ proc = "running"
  /\ ~viewDestroyed
  /\ ev' = Event("did-navigate", "", "", JsStr(url))
  /\ IF ~ParseURL(url).ok
     THEN /\ out' = <<Call("throw", <<"TypeError">>)>>
          /\ UNCHANGED <<navPending, hasLoggedIn>>
     ELSE IF Suspends(url)
     THEN /\ Len(navPending) < MaxInFlight
          /\ navPending' = Append(navPending, [url |-> url, hasLoggedIn |-> hasLoggedIn])
          /\ hasLoggedIn' = hasLoggedIn
          /\ out' = <<>>
     ELSE /\ navPending' = navPending
          /\ hasLoggedIn' = markLoggedIn(url, hasLoggedIn)
          /\ out' = IF hasLoggedIn' # hasLoggedIn
                    THEN <<Log("[Login] User has reached Messenger")>> ELSE <<>>
  /\ UNCHANGED <<extVars, now, platform, ipcVars, trayVars, winVars, proc, cookies, redirectTimers,
                 viewDestroyed>>

\* cookies.get resolves and the i-th suspended listener runs to its end
CookiesResolved(i) ==
  /\ proc = "running"
  /\ i \in DOMAIN navPending
  /\ LET url == navPending[i].url
         schedule == hasFacebookSession /\ isOnHomepage(url)
     IN
     /\ ev' = Event("cookies-resolved", "", "", JsStr(url))
     /\ schedule => Len(redirectTimers) < MaxTimers
     /\ redirectTimers' = IF schedule
                          THEN Append(redirectTimers, now + LOGIN_REDIRECT_DELAY_MS)
                          ELSE redirectTimers
     /\ hasLoggedIn' = markLoggedIn(url, navPending[i].hasLoggedIn)
     /\ out' = (IF schedule THEN <<Log("[Login] Facebook login confirmed")>> ELSE <<>>)
               \o (IF hasLoggedIn' # hasLoggedIn
                   THEN <<Log("[Login] User has reached Messenger")>> ELSE <<>>)
  /\ navPending' = SubSeq(navPending, 1, i - 1) \o SubSeq(navPending, i + 1, Len(navPending))
  /\ UNCHANGED <<extVars, now, platform, ipcVars, trayVars, winVars, proc, cookies, viewDestroyed>>

\* The oldest redirect timer is due and its callback runs
RedirectFire ==
  /\ proc = "running"
  /\ redirectTimers # <<>>
  /\ Head(redirectTimers) <= now
  /\ redirectTimers' = Tail(redirectTimers)
  /\ ev' = Event("redirect-fire", "", "", JsUndefined)
  /\ out' = IF ~viewDestroyed
            THEN <<Call("view.webContents.loadURL", MESSENGER_URL)>>
            ELSE <<>>
  /\ UNCHANGED <<extVars, now, platform, ipcVars, trayVars, winVars, proc, hasLoggedIn, cookies,
                 navPending, viewDestroyed>>

\* The identity provider sets or clears cookies of the session
SetCookies(names) ==
  /\ proc = "running"
  /\ ~viewDestroyed
  /\ cookies # names
  /\ cookies' = names
  /\ ev' = Event("set-cookies", "", "", JsUndefined)
  /\ out' = <<>>
  /\ UNCHANGED <<extVars, now, platform, ipcVars, trayVars, winVars, proc, hasLoggedIn, navPending,
                 redirectTimers, viewDestroyed>>

\* The webContents of the embedded view is destroyed while the process lives
ViewGone ==
  /\ proc = "running"
  /\ ~viewDestroyed
  /\ viewDestroyed' = TRUE
  /\ ev' = Event("view-destroyed", "", "", JsUndefined)
  /\ out' = <<>>
  /\ UNCHANGED <<extVars, now, platform, ipcVars, trayVars, winVars, proc, hasLoggedIn, cookies,
                 navPending, redirectTimers>>

NextLogin ==
  \/ Tick(RATE_LIMIT_WINDOW_MS, MaxNow)
  \/ \E url \in NavUrls : DidNavigate(url)
  \/ \E i \in 1..MaxInFlight : CookiesResolved(i)
  \/ RedirectFire
  \/ \E names \in SUBSET CookieNames : SetCookies(names)
  \/ ViewGone
  \/ ProcessExit
  \/ Launch

SpecLogin == InitWindows /\ [][NextLogin]_vars

(***************************************************************************)
(* Properties of the login detection                                       *)
(***************************************************************************)
\* The host is the messaging domain or one of its subdomains
IsMessengerHost(h) ==
  \/ h = <<"messenger", ".", "com">>
  \/ (Len(h) > 3 /\ SubSeq(h, Len(h) - 3, Len(h)) = <<".", "messenger", ".", "com">>)

\* C8: the persisted hasLoggedIn never goes from true to false, under every
\* interleaving of did-navigate listeners (suspended at the cookie read or not),
\* redirect timers, process exits and restarts.
C8_HasLoggedInNeverUnset == [][hasLoggedIn => hasLoggedIn']_vars

\* C8 witness: the flag is set and a did-navigate to the identity provider's
\* login page has been handled afterwards
C8_Witness ==
  /\ hasLoggedIn
  /\ ev.op = "did-navigate"
  /\ ev.arg.s = FACEBOOK_LOGIN_URL
  /\ now > 0

\* C9: a did-navigate to a host of the messaging domain leaves hasLoggedIn = true
\* persisted (and does nothing when it already was), and a launch that reads
\* hasLoggedIn = true loads the messaging root URL.
C9_MessengerReachedPersists ==
  [][/\ (ev'.op = "did-navigate" /\ IsMessengerHost(ParseURL(ev'.arg.s).hostname))
          => /\ hasLoggedIn'
             /\ hasLoggedIn => out' = <<>>
     /\ (ev'.op = "launch" /\ hasLoggedIn)
          => (hasLoggedIn' /\ out' = <<Call("loadURL", MESSENGER_URL)>>)
    ]_vars

\* C9 witness: a launch has read hasLoggedIn = true and loaded the messaging root URL
C9_Witness ==
  /\ ev.op = "launch"
  /\ hasLoggedIn
  /\ out = <<Call("loadURL", MESSENGER_URL)>>

\* C10: from hasLoggedIn = false, a did-navigate to the identity provider's bare
\* homepage goes on to read the cookies; when both c_user and xs are there a
\* navigation is scheduled for 3000 ms later; the timer fires exactly at its
\* deadline, is dropped only by firing or by the end of the process, and when it
\* fires with the view alive the view is loaded with the messaging root URL.
C10_RedirectAfterGraceDelay ==
  [][/\ (ev'.op = "did-navigate" /\ ~hasLoggedIn /\ ev'.arg.s = FACEBOOK_HOME \o <<"/">>)
          => navPending' = Append(navPending, [url |-> ev'.arg.s, hasLoggedIn |-> FALSE])
     /\ (ev'.op = "cookies-resolved" /\ ev'.arg.s = FACEBOOK_HOME \o <<"/">>
           /\ {"c_user", "xs"} \subseteq cookies)
          => redirectTimers' = Append(redirectTimers, now + LOGIN_REDIRECT_DELAY_MS)
     /\ ev'.op = "redirect-fire"
          => /\ now = Head(redirectTimers)
             /\ ~viewDestroyed => out' = <<Call("view.webContents.loadURL", MESSENGER_URL)>>
     /\ \A i \in DOMAIN redirectTimers' : redirectTimers'[i] >= now'
     /\ Len(redirectTimers') < Len(redirectTimers) => ev'.op \in {"redirect-fire", "exit"}
    ]_vars

\* C10 witness: a redirect timer has fired and loaded the messaging root URL
C10_Witness ==
  /\ ev.op = "redirect-fire"
  /\ now >= LOGIN_REDIRECT_DELAY_MS
  /\ out = <<Call("view.webContents.loadURL", MESSENGER_URL)>>

\* The URL is the identity provider's homepage, with or without a query
IsProviderHomepage(url) ==
  \/ url = FACEBOOK_HOME \o <<"/">>
  \/ StartsWith(url, FACEBOOK_HOME \o <<"/", "?">>)

\* C11: a login redirect is scheduled only by a did-navigate listener that started
\* with hasLoggedIn = false, for the identity provider's bare homepage, while the
\* session holds both authentication cookies c_user and xs; otherwise no redirect
\* is scheduled.
C11_RedirectOnlyWithBothCookies ==
  [][Len(redirectTimers') > Len(redirectTimers)
       => /\ ev'.op = "cookies-resolved"
          /\ \E i \in DOMAIN navPending :
               navPending[i].url = ev'.arg.s /\ ~navPending[i].hasLoggedIn
          /\ Includes(ParseURL(ev'.arg.s).hostname, <<"facebook", ".", "com">>)
          /\ IsProviderHomepage(ev'.arg.s)
          /\ {"c_user", "xs"} \subseteq cookies
    ]_vars

(***************************************************************************)
(* BrowserLogin: the login flow in a separate window                       *)
(***************************************************************************)
LOGIN_TIMEOUT_MS == 300000

FACEBOOK_BARE == <<"https", "://", "facebook", ".", "com">>
MESSENGER_BARE == <<"https", "://", "messenger", ".", "com">>

\* checkLoginSuccess: one of loggedInPatterns matches the URL
isLoggedInUrl(url) ==
  \/ url \in {FACEBOOK_BARE, FACEBOOK_BARE \o <<"/">>, FACEBOOK_HOME, FACEBOOK_HOME \o <<"/">>}
  \/ StartsWith(url, MESSENGER_BARE) \/ StartsWith(url, MESSENGER_URL)
  \/ StartsWith(url, FACEBOOK_BARE \o <<"/", "messages">>)
  \/ StartsWith(url, FACEBOOK_HOME \o <<"/", "messages">>)
  \/ StartsWith(url, FACEBOOK_BARE \o <<"/", "?", "sk", "=">>)
  \/ StartsWith(url, FACEBOOK_HOME \o <<"/", "?", "sk", "=">>)

\* The URLs the login window navigates to
LoginWindowUrls ==
  {FACEBOOK_LOGIN_URL, FACEBOOK_HOME \o <<"/">>, MESSENGER_URL \o <<"/">>}

\* cleanup without its one-shot guard
cleanupUnguarded(bl, result) ==
  [bl |-> [bl EXCEPT !.isCleanedUp = TRUE, !.timeout = <<>>, !.loginWindow = "null",
                     !.resolvePromise = FALSE],
   ran |-> TRUE,
   resolved |-> IF bl.resolvePromise THEN <<result>> ELSE <<>>,
   out |-> <<Log("[BrowserLogin] Cleanup")>>
           \o (IF bl.loginWindow = "open" THEN <<Call("loginWindow.close", <<>>)>> ELSE <<>>)]

\* cleanup(result) on the instance bl: the instance afterwards, whether the body
\* ran, what the promise was resolved with, and the calls made
cleanup(bl, result) ==
  IF bl.isCleanedUp
  THEN [bl |-> bl, ran |-> FALSE, resolved |-> <<>>, out |-> <<>>]
  ELSE [bl |-> [bl EXCEPT !.isCleanedUp = TRUE, !.timeout = <<>>, !.loginWindow = "null",
                          !.resolvePromise = FALSE],
        ran |-> TRUE,
        resolved |-> IF bl.resolvePromise THEN <<result>> ELSE <<>>,
        out |-> <<Log("[BrowserLogin] Cleanup")>>
                \o (IF bl.loginWindow = "open" THEN <<Call("loginWindow.close", <<>>)>> ELSE <<>>)]

\* A trigger calls cleanup(result) on the instance bl
Trigger(op, bl, result) ==
  LET r == cleanup(bl, result) IN
  /\ browserLogin' = r.bl
  /\ blHistory' = [blHistory EXCEPT !.cleanups = @ + (IF r.ran THEN 1 ELSE 0),
                                    !.resolved = @ \o r.resolved,
                                    !.first = IF @ = <<>> THEN <<result>> ELSE @]
  /\ ev' = Event(op, "", "", JsStr(<<result>>))
  /\ out' = r.out

\* A step of the login flow that does not call cleanup
NoTrigger(op, bl) ==
  /\ browserLogin' = bl
  /\ blHistory' = blHistory
  /\ ev' = Event(op, "", "", JsUndefined)
  /\ out' = <<>>

startLogin ==
  /\ proc = "running"
  /\ ~blHistory.started
  /\ browserLogin' = [browserLogin EXCEPT !.resolvePromise = TRUE, !.loginWindow = "open",
                                          !.loading = TRUE,
                                          !.timeout = <<now + LOGIN_TIMEOUT_MS>>]
  /\ blHistory' = [blHistory EXCEPT !.started = TRUE]
  /\ ev' = Event("startLogin", "", "", JsUndefined)
  /\ out' = <<Call("loginWindow.loadURL", MESSENGER_URL)>>
  /\ UNCHANGED <<now, mainVars, fcVars, wsVars, plVars>>

\* loadURL of the login window settles
LoginLoadSettled(failed) ==
  /\ proc = "running"
  /\ browserLogin.loading
  /\ LET bl == [browserLogin EXCEPT !.loading = FALSE] IN
     IF failed /\ ~browserLogin.isCleanedUp
     THEN Trigger("load-failed", bl, "Failed to load login page")
     ELSE NoTrigger("load-settled", bl)
  /\ UNCHANGED <<now, mainVars, fcVars, wsVars, plVars>>

\* The user closes the login window: its 'closed' listener runs
LoginWindowClosed ==
  /\ proc = "running"
  /\ browserLogin.loginWindow = "open"
  /\ Trigger("closed", [browserLogin EXCEPT !.loginWindow = "destroyed"],
             "Login cancelled by user")
  /\ UNCHANGED <<now, mainVars, fcVars, wsVars, plVars>>

\* The 5-minute timer is due: it is pending no longer and its callback runs
LoginTimeout ==
  /\ proc = "running"
  /\ browserLogin.timeout # <<>>
  /\ browserLogin.timeout[1] <= now
  /\ Trigger("login-timeout", [browserLogin EXCEPT !.timeout = <<>>],
             "Login timeout - please try again")
  /\ UNCHANGED <<now, mainVars, fcVars, wsVars, plVars>>

\* did-navigate or did-navigate-in-page of the login window: checkLoginSuccess and,
\* for a logged-in URL, extractCookies up to its first await
LoginNavigate(url) ==
  /\ proc = "running"
  /\ browserLogin.loginWindow = "open"
  /\ isLoggedInUrl(url) => browserLogin.extracting < MaxInFlight
  /\ IF isLoggedInUrl(url)
     THEN NoTrigger("login-navigate", [browserLogin EXCEPT !.extracting = @ + 1])
     ELSE NoTrigger("login-navigate", browserLogin)
  /\ UNCHANGED <<now, mainVars, fcVars, wsVars, plVars>>

\* The cookie reads of one suspended extractCookies settle: with the session
\* cookies, without them, or by throwing
ExtractCookiesSettled(outcome) ==
  /\ proc = "running"
  /\ browserLogin.extracting > 0
  /\ LET bl == [browserLogin EXCEPT !.extracting = @ - 1] IN
     CASE outcome = "session" -> Trigger("extracted", bl, "success")
       [] outcome = "throws" -> Trigger("extract-failed", bl, "Failed to extract cookies")
       [] OTHER -> NoTrigger("extracted-nothing", bl)
  /\ UNCHANGED <<now, mainVars, fcVars, wsVars, plVars>>

stop ==
  /\ proc = "running"
  /\ blHistory.started
  /\ Trigger("stop", browserLogin, "Cancelled by user")
  /\ UNCHANGED <<now, mainVars, fcVars, wsVars, plVars>>

NextBrowserLogin ==
  \/ Tick(LOGIN_TIMEOUT_MS \div 2, MaxLoginNow)
  \/ startLogin
  \/ \E failed \in BOOLEAN : LoginLoadSettled(failed)
  \/ LoginWindowClosed
  \/ LoginTimeout
  \/ \E url \in LoginWindowUrls : LoginNavigate(url)
  \/ \E outcome \in {"session", "none", "throws"} : ExtractCookiesSettled(outcome)
  \/ stop

SpecBrowserLogin == InitWindows /\ [][NextBrowserLogin]_vars

\* C12: in one login flow the cleanup body runs at most once and the promise of
\* startLogin is resolved at most once, with the result of the first trigger;
\* they have run exactly once as soon as any trigger has fired, later triggers
\* change nothing, and the flow cannot outlive its 5-minute timer unresolved.
C12_CleanupExactlyOnce ==
  /\ blHistory.cleanups <= 1
  /\ Len(blHistory.resolved) <= 1
  /\ blHistory.first # <<>>
       => /\ blHistory.cleanups = 1
          /\ blHistory.resolved = blHistory.first
          /\ browserLogin.isCleanedUp
          /\ browserLogin.timeout = <<>>
          /\ browserLogin.loginWindow = "null"
  /\ (blHistory.started /\ browserLogin.timeout = <<>>) => Len(blHistory.resolved) = 1
  /\ (blHistory.started /\ blHistory.first = <<>>)
       => (browserLogin.timeout # <<>> /\ browserLogin.timeout[1] >= now)

\* C12 witness: a trigger fires after the flow was already cleaned up by another
\* one, and the promise keeps the first result
C12_Witness ==
  /\ ev.op \in {"stop", "extracted", "extract-failed"}
  /\ blHistory.first # <<>>
  /\ blHistory.first # <<ev.arg.s[1]>>
  /\ blHistory.resolved = blHistory.first
  /\ blHistory.cleanups = 1

(***************************************************************************)
(* Containment: will-navigate of the embedded view and of a child window,  *)
(* and the permission request handler of the messaging session             *)
(***************************************************************************)
\* String.prototype.endsWith, as the patterns /^.*\.name$/ use it
EndsWith(s, p) == Len(s) >= Len(p) /\ SubSeq(s, Len(s) - Len(p) + 1, Len(s)) = p

\* allowedPatterns that test whether the host contains the name of an allowed domain
isAllowedBySubstring(hostname) ==
  \/ Includes(hostname, <<"messenger", ".", "com">>)
  \/ Includes(hostname, <<"facebook", ".", "com">>)
  \/ Includes(hostname, <<"fbcdn", ".", "net">>)
  \/ Includes(hostname, <<"fbsbx", ".", "com">>)

\* allowedPatterns.some(pattern => pattern.test(hostname)) of the embedded view
isAllowed(hostname) ==
  \/ hostname \in {<<"messenger", ".", "com">>, <<"www", ".", "messenger", ".", "com">>}
  \/ hostname \in {<<"facebook", ".", "com">>, <<"www", ".", "facebook", ".", "com">>}
  \/ EndsWith(hostname, <<".", "messenger", ".", "com">>)
  \/ EndsWith(hostname, <<".", "facebook", ".", "com">>)
  \/ EndsWith(hostname, <<".", "fbcdn", ".", "net">>)
  \/ EndsWith(hostname, <<".", "fbsbx", ".", "com">>)

\* allowedPatterns.some(pattern => pattern.test(hostname)) of a child window
isAllowedChild(hostname) ==
  \/ hostname \in {<<"messenger", ".", "com">>, <<"www", ".", "messenger", ".", "com">>}
  \/ hostname \in {<<"facebook", ".", "com">>, <<"www", ".", "facebook", ".", "com">>}
  \/ EndsWith(hostname, <<".", "messenger", ".", "com">>)
  \/ EndsWith(hostname, <<".", "facebook", ".", "com">>)
  \/ EndsWith(hostname, <<".", "fbcdn", ".", "net">>)

\* Hosts a navigation may target
NavHosts ==
  {<<"messenger", ".", "com">>,
   <<"www", ".", "messenger", ".", "com">>,
   <<"edge-chat", ".", "messenger", ".", "com">>,
   <<"facebook", ".", "com">>,
   <<"www", ".", "facebook", ".", "com">>,
   <<"m", ".", "facebook", ".", "com">>,
   <<"static", ".", "xx", ".", "fbcdn", ".", "net">>,
   <<"attachment", ".", "fbsbx", ".", "com">>,
   <<"example", ".", "com">>,
   <<"evilmessenger", ".", "com">>,
   <<"messenger", ".", "com", ".", "evil", ".", "com">>,
   <<"www", ".", "facebook", ".", "com", ".", "evil", ".", "net">>,
   <<"notfbcdn", ".", "net">>}

\* The URLs of the navigation attempts
WillNavigateUrls ==
  {<<scheme, "://">> \o host \o path :
     scheme \in {"https", "http"}, host \in NavHosts, path \in {<<>>, <<"/", "t">>}}

\* will-navigate of the embedded view
ViewWillNavigate(url) ==
  /\ proc = "running"
  /\ ~viewDestroyed
  /\ ev' = Event("will-navigate", "view", "", JsStr(url))
  /\ out' = IF ~ParseURL(url).ok
            THEN <<Call("throw", <<"TypeError">>)>>
            ELSE IF ~isAllowed(ParseURL(url).hostname)
            THEN <<Log("[Navigation] Blocked"), Call("event.preventDefault", <<>>),
                   Call("shell.openExternal", url)>>
            ELSE <<Log("[Navigation] Allowed")>>
  /\ UNCHANGED <<now, mainVars, extVars>>

\* will-navigate of a child (call) window
ChildWillNavigate(url) ==
  /\ proc = "running"
  /\ ~viewDestroyed
  /\ ev' = Event("will-navigate", "child", "", JsStr(url))
  /\ out' = IF ~ParseURL(url).ok
            THEN <<Call("throw", <<"TypeError">>)>>
            ELSE IF ~isAllowedChild(ParseURL(url).hostname)
            THEN <<Log("[ChildWindow] Blocked navigation"), Call("event.preventDefault", <<>>)>>
            ELSE <<>>
  /\ UNCHANGED <<now, mainVars, extVars>>

\* allowedPermissions
allowedPermissions ==
  {"notifications", "media", "mediaKeySystem", "clipboard-read",
   "clipboard-sanitized-write", "fullscreen", "display-capture"}

\* The permissions a page may request
Permissions ==
  allowedPermissions \cup {"geolocation", "midi", "pointerLock", "openExternal"}

\* Origins of the requesting frames (details.requestingUrl)
RequestingOrigins ==
  {<<"https", "://", "www", ".", "messenger", ".", "com">>,
   <<"https", "://", "www", ".", "facebook", ".", "com">>,
   <<"https", "://", "example", ".", "com">>}

\* The handler set by messengerSession.setPermissionRequestHandler
PermissionRequest(origin, permission) ==
  /\ proc = "running"
  /\ ev' = Event("permission-request", permission, origin, JsUndefined)
  /\ out' = IF permission \in allowedPermissions
            THEN <<Log("[Session] Permission request"), Call("callback", <<"true">>)>>
            ELSE <<Log("[Session] Permission request"), Warn("[Session] Denied permission"),
                   Call("callback", <<"false">>)>>
  /\ UNCHANGED <<now, mainVars, extVars>>

NextContain ==
  \/ \E url \in WillNavigateUrls : ViewWillNavigate(url)
  \/ \E url \in WillNavigateUrls : ChildWillNavigate(url)
  \/ \E origin \in RequestingOrigins, permission \in Permissions :
       PermissionRequest(origin, permission)

SpecContain == InitWindows /\ [][NextContain]_vars

\* The host is the domain or one of its subdomains
InDomain(hostname, domain) == hostname = domain \/ EndsWith(hostname, <<".">> \o domain)

\* The allow-list: the messaging domain, the identity-provider domain, their
\* subdomains, and the hosts of the two CDN domains
OnAllowList(hostname) ==
  \/ InDomain(hostname, <<"messenger", ".", "com">>)
  \/ InDomain(hostname, <<"facebook", ".", "com">>)
  \/ EndsWith(hostname, <<".", "fbcdn", ".", "net">>)
  \/ EndsWith(hostname, <<".", "fbsbx", ".", "com">>)

OpenedExternally == \E i \in DOMAIN out : out[i].k = "shell.openExternal" /\ out[i].s = ev.arg.s

C14_ChildSameContainment ==
  (ev.op = "will-navigate" /\ ev.ch = "child")
    => /\ Prevented <=> ~isAllowed(ParseURL(ev.arg.s).hostname)
       /\ Prevented => OpenedExternally

\* The permission kinds: notifications, media capture, clipboard, fullscreen,
\* screen capture
ListedPermissions ==
  {"notifications", "media", "clipboard-read", "clipboard-sanitized-write",
   "fullscreen", "display-capture"}

\* C15: a permission is granted only to an origin on the allow-list and only if
\* it is one of the listed kinds; every other request is denied.
C15_PermissionAllowList ==
  ev.op = "permission-request"
    => /\ (\E i \in DOMAIN out : out[i] = Call("callback", <<"true">>))
            => /\ OnAllowList(ParseURL(ev.sender).hostname)
               /\ ev.ch \in ListedPermissions
       /\ (\E i \in DOMAIN out : out[i].k = "callback")

(***************************************************************************)
(* Window manager: the persisted window state                              *)
(***************************************************************************)
MIN_VISIBLE_PX == 100

Max2(a, b) == IF a >= b THEN a ELSE b
Min2(a, b) == IF a <= b THEN a ELSE b

\* getIntersection(a, b): <<>> (null) or <<rectangle>>
getIntersection(a, b) ==
  LET x == Max2(a.x, b.x)
      y == Max2(a.y, b.y)
      width == Min2(a.x + a.width, b.x + b.width) - x
      height == Min2(a.y + a.height, b.y + b.height) - y
  IN IF width > 0 /\ height > 0 THEN <<Rect(x, y, width, height)>> ELSE <<>>

isVisibleOnAnyDisplay(bounds) ==
  \E display \in displays :
    LET intersection == getIntersection(bounds, display) IN
    /\ intersection # <<>>
    /\ intersection[1].width * intersection[1].height >= MIN_VISIBLE_PX * MIN_VISIBLE_PX

\* getWindowState that drops the size together with the position
getWindowStateDropsSize ==
  IF windowState.x # <<>> /\ windowState.y # <<>>
  THEN IF isVisibleOnAnyDisplay(Rect(windowState.x[1], windowState.y[1],
                                     windowState.width, windowState.height))
       THEN windowState
       ELSE DEFAULT_WINDOW_STATE
  ELSE windowState

\* getWindowState(): the state it returns
getWindowState ==
  IF windowState.x # <<>> /\ windowState.y # <<>>
  THEN IF isVisibleOnAnyDisplay(Rect(windowState.x[1], windowState.y[1],
                                     windowState.width, windowState.height))
       THEN windowState
       ELSE [windowState EXCEPT !.x = <<>>, !.y = <<>>]
  ELSE windowState

\* Positions and sizes the window may have when its state is saved
WindowPositions ==
  {<<100, 100>>, <<5000, 5000>>, <<0, 1070>>, <<1870, 1030>>, <<2000, 100>>, <<-1150, -750>>}
WindowSizes == {<<1200, 800>>, <<800, 600>>}

\* A call of getWindowState (createMainWindow)
GetWindowState ==
  /\ returned' = <<getWindowState>>
  /\ ev' = Event("getWindowState", "", "", JsUndefined)
  /\ out' = IF getWindowState # windowState
            THEN <<Log("[WindowManager] Saved position off-screen, centering window")>>
            ELSE <<>>
  /\ UNCHANGED <<now, mainVars, fcVars, blVars, plVars, windowState, saveStateTimeout, saveTimers, winBounds, displays>>

\* clearTimeout(saveStateTimeout)
ClearSaveTimeout ==
  IF saveStateTimeout = <<>> THEN saveTimers ELSE saveTimers \ {saveStateTimeout[1]}

\* saveWindowState without the clearTimeout
saveWindowStateNoClear ==
  /\ proc = "running"
  /\ ~win.destroyed
  /\ saveTimers' = saveTimers \cup {now + WINDOW_STATE_SAVE_DEBOUNCE_MS}
  /\ saveStateTimeout' = <<now + WINDOW_STATE_SAVE_DEBOUNCE_MS>>
  /\ ev' = Event("saveWindowState", "", "", JsUndefined)
  /\ out' = <<>>
  /\ UNCHANGED <<now, mainVars, fcVars, blVars, plVars, windowState, winBounds, displays, returned>>

\* saveWindowState(window): the handle's timer is cleared and a new one is set
saveWindowState ==
  /\ proc = "running"
  /\ ~win.destroyed
  /\ saveTimers' = ClearSaveTimeout \cup {now + WINDOW_STATE_SAVE_DEBOUNCE_MS}
  /\ saveStateTimeout' = <<now + WINDOW_STATE_SAVE_DEBOUNCE_MS>>
  /\ ev' = Event("saveWindowState", "", "", JsUndefined)
  /\ out' = IF saveStateTimeout = <<>> THEN <<>>
            ELSE <<CallN("clearTimeout", saveStateTimeout[1])>>
  /\ UNCHANGED <<now, mainVars, fcVars, blVars, plVars, windowState, winBounds, displays, returned>>

\* The debounce timer of saveWindowState is due: the bounds the window has then
\* are stored
SaveStateFire(pos, size, isMaximized) ==
  /\ proc = "running"
  /\ \E t \in saveTimers :
       /\ t <= now
       /\ saveTimers' = saveTimers \ {t}
  /\ ev' = Event("save-state-fire", "", "", JsUndefined)
  /\ IF win.destroyed
     THEN windowState' = windowState /\ out' = <<>>
     ELSE /\ windowState' = [x |-> <<pos[1]>>, y |-> <<pos[2]>>,
                             width |-> size[1], height |-> size[2],
                             isMaximized |-> isMaximized, isFullScreen |-> FALSE]
          /\ out' = <<Log("[WindowManager] State saved")>>
  /\ UNCHANGED <<now, mainVars, fcVars, blVars, plVars, saveStateTimeout, winBounds, displays, returned>>

\* A display is attached or detached
DisplaysChanged(ds) ==
  /\ displays # ds
  /\ displays' = ds
  /\ ev' = Event("displays-changed", "", "", JsUndefined)
  /\ out' = <<>>
  /\ UNCHANGED <<now, mainVars, fcVars, blVars, plVars, windowState, saveStateTimeout, saveTimers, winBounds,
                 returned>>

NextWindowState ==
  \/ Tick(WINDOW_STATE_SAVE_DEBOUNCE_MS, MaxSaveNow)
  \/ GetWindowState
  \/ saveWindowState
  \/ \E pos \in WindowPositions, size \in WindowSizes, isMaximized \in BOOLEAN :
       SaveStateFire(pos, size, isMaximized)
  \/ \E ds \in {{PrimaryDisplay}, {PrimaryDisplay, SecondDisplay}} : DisplaysChanged(ds)

SpecWindowState == InitWindows /\ [][NextWindowState]_vars

\* The persisted bounds
StoredBounds ==
  Rect(windowState.x[1], windowState.y[1], windowState.width, windowState.height)

\* Some display shows at least 100 px of the width and 100 px of the height
VisibleEnough ==
  \E display \in displays :
    LET i == getIntersection(StoredBounds, display) IN
    i # <<>> /\ i[1].width >= MIN_VISIBLE_PX /\ i[1].height >= MIN_VISIBLE_PX

\* C16: getWindowState keeps a persisted position only if some display's work
\* area meets the persisted bounds in at least 100 px of width and 100 px of
\* height; otherwise it returns x and y undefined.
C16_PositionKeptOnlyIfVisible ==
  (ev.op = "getWindowState" /\ windowState.x # <<>> /\ windowState.y # <<>>)
    => IF VisibleEnough
       THEN returned[1].x = windowState.x /\ returned[1].y = windowState.y
       ELSE returned[1].x = <<>> /\ returned[1].y = <<>>

\* C17: for a persisted position outside every display's work area getWindowState
\* returns x and y undefined and the persisted width, height, isMaximized and
\* isFullScreen; and getWindowState leaves the persisted record as it was.
C17_OffScreenKeepsSize ==
  [][ev'.op = "getWindowState"
       => /\ windowState' = windowState
          /\ (/\ windowState.x # <<>> /\ windowState.y # <<>>
              /\ \A display \in displays : getIntersection(StoredBounds, display) = <<>>)
               => returned' = <<[windowState EXCEPT !.x = <<>>, !.y = <<>>]>>
    ]_vars

\* C17 witness: getWindowState has dropped the position of a maximized window of
\* a size other than the default
C17_Witness ==
  /\ ev.op = "getWindowState"
  /\ windowState.x = <<5000>>
  /\ windowState.width = 800
  /\ windowState.isMaximized
  /\ returned = <<[windowState EXCEPT !.x = <<>>, !.y = <<>>]>>

(***************************************************************************)
(* The preload script of the embedded view: unread count detection         *)
(***************************************************************************)
\* parseUnreadFromTitle without the sanity check on the parsed number
parseUnreadFromTitleNoRange(t) ==
  IF /\ Len(t) >= 3
     /\ t[1] = Lit("(")
     /\ t[2].t = "digits"
     /\ \/ t[3] = Lit(")")
        \/ (Len(t) >= 4 /\ t[3] = Lit("+") /\ t[4] = Lit(")"))
  THEN t[2].n
  ELSE 0

\* parseUnreadFromTitle(title): the match of /^\((\d+)\+?\)/ and the sanity check
parseUnreadFromTitle(t) ==
  IF /\ Len(t) >= 3
     /\ t[1] = Lit("(")
     /\ t[2].t = "digits"
     /\ \/ t[3] = Lit(")")
        \/ (Len(t) >= 4 /\ t[3] = Lit("+") /\ t[4] = Lit(")"))
     /\ t[2].n >= 0 /\ t[2].n <= MAX_UNREAD_COUNT
  THEN t[2].n
  ELSE 0

\* safeSend(IPC_CHANNELS.UNREAD_COUNT_UPDATE, {count, timestamp, source})
SendUnread(count, source) ==
  [k |-> "ipcRenderer.send", s |-> <<UNREAD_COUNT_UPDATE, source>>, n |-> count]

\* The titles the page sets
Titles ==
  {<<Lit("Messenger")>>,
   <<Lit("("), Digits(1), Lit(")"), Lit(" Messenger")>>,
   <<Lit("("), Digits(1), Lit(")"), Lit(" Chats")>>,
   <<Lit("("), Digits(12), Lit("+"), Lit(")"), Lit(" Messenger")>>,
   <<Lit("("), Digits(10000), Lit(")"), Lit(" Messenger")>>,
   <<Lit("Chats "), Lit("("), Digits(1), Lit(")")>>}

\* Numbers of elements the selectors of the DOM scan may match
DomCounts == {0, 1, 10000}

\* The last two entries of a sequence
LastTwo(s) == IF Len(s) > 2 THEN SubSeq(s, Len(s) - 1, Len(s)) ELSE s

\* The title node is mutated: the MutationObserver runs handleTitleChange
TitleMutation(t) ==
  /\ proc = "running"
  /\ title' = t
  /\ ev' = Event("title-mutation", "", "", JsUndefined)
  /\ LET count == parseUnreadFromTitle(t) IN
     IF count # lastUnreadCount
     THEN /\ lastUnreadCount' = count
          /\ titleSent' = LastTwo(Append(titleSent, count))
          /\ out' = <<SendUnread(count, "title"), Log("[Preload] Unread count")>>
     ELSE /\ UNCHANGED <<lastUnreadCount, titleSent>>
          /\ out' = <<>>
  /\ UNCHANGED <<now, mainVars, fcVars, blVars, wsVars, domCount, domInterval, observers>>

\* setupDOMObserver() on a loaded document: the interval is set
setupDOMObserver ==
  /\ proc = "running"
  /\ ~domInterval
  /\ domInterval' = TRUE
  /\ ev' = Event("setupDOMObserver", "", "", JsUndefined)
  /\ out' = <<Log("[Preload] DOM observer set up")>>
  /\ UNCHANGED <<now, mainVars, fcVars, blVars, wsVars, lastUnreadCount, title, domCount, titleSent, observers>>

\* The page changes the elements the selectors match
DomChanged(n) ==
  /\ proc = "running"
  /\ domCount # n
  /\ domCount' = n
  /\ ev' = Event("dom-changed", "", "", JsUndefined)
  /\ out' = <<>>
  /\ UNCHANGED <<now, mainVars, fcVars, blVars, wsVars, lastUnreadCount, title, domInterval, titleSent, observers>>

\* One tick of the interval of setupDOMObserver
DomPollTick ==
  /\ proc = "running"
  /\ domInterval
  /\ ev' = Event("dom-poll", "", "", JsUndefined)
  /\ LET count == domCount IN
     IF count # lastUnreadCount
     THEN /\ lastUnreadCount' = count
          /\ out' = <<SendUnread(count, "dom"), Log("[Preload] Unread count (DOM)")>>
     ELSE /\ UNCHANGED lastUnreadCount
          /\ out' = <<>>
  /\ UNCHANGED <<now, mainVars, fcVars, blVars, wsVars, title, domCount, domInterval, titleSent, observers>>

\* The values a page passes to messengerBridge.sendUnreadCount
BridgeCounts ==
  {JsNum(-1), JsNum(0), JsNum(1), JsNum(MAX_UNREAD_COUNT), JsNum(MAX_UNREAD_COUNT + 1),
   JsHalf(3), JsStr(<<"5">>), JsUndefined}

\* sendUnreadCount without the upper bound of its validation
sendUnreadCountNoUpperBound(count) ==
  /\ proc = "running"
  /\ ev' = Event("sendUnreadCount", "", "", count)
  /\ out' = IF ~IsInteger(count) \/ count.n < 0
            THEN <<Warn("[Preload] Invalid count from web content")>>
            ELSE <<SendUnread(count.n, "dom")>>
  /\ UNCHANGED <<now, mainVars, fcVars, blVars, wsVars, plVars>>

\* messengerBridge.sendUnreadCount(count)
sendUnreadCount(count) ==
  /\ proc = "running"
  /\ ev' = Event("sendUnreadCount", "", "", count)
  /\ out' = IF ~IsInteger(count) \/ count.n < 0 \/ count.n > MAX_UNREAD_COUNT
            THEN <<Warn("[Preload] Invalid count from web content")>>
            ELSE <<SendUnread(count.n, "dom")>>
  /\ UNCHANGED <<now, mainVars, fcVars, blVars, wsVars, plVars>>

MAX_REPORT_MESSAGE_LENGTH == 1000

\* reportError that sends the message as it came
sanitizedMessageNoSlice(message) == message

\* message.slice(0, 1000)
sanitizedMessage(message) ==
  IF StrLen(message) > MAX_REPORT_MESSAGE_LENGTH
  THEN JsLongStr(MAX_REPORT_MESSAGE_LENGTH)
  ELSE message

validContexts == {<<"dom-observer">>, <<"title-observer">>, <<"ipc">>, <<"unknown">>}

\* validContexts.includes(context) ? context : 'unknown'
validContext(context) ==
  IF context.t = "string" /\ context.s \in validContexts THEN context ELSE JsStr(<<"unknown">>)

\* safeSend(IPC_CHANNELS.ERROR_REPORT, payload)
SendReport(payload) ==
  [k |-> "ipcRenderer.send", s |-> <<ERROR_REPORT>>, n |-> 0, payload |-> payload]

\* The messages and contexts a page passes to messengerBridge.reportError
ReportMessages ==
  {JsUndefined, JsNum(5), JsStr(<<>>), JsStr(<<"boom">>),
   JsLongStr(MAX_REPORT_MESSAGE_LENGTH), JsLongStr(MAX_REPORT_MESSAGE_LENGTH + 1),
   JsLongStr(2 * MAX_ERROR_MESSAGE_LENGTH)}
ReportContexts ==
  {JsStr(<<"ipc">>), JsStr(<<"unknown">>), JsStr(<<"renderer">>), JsUndefined}

\* messengerBridge.reportError(message, context)
reportError(message, context) ==
  /\ proc = "running"
  /\ ev' = Event("reportError", "", "", JsObj([message |-> message, context |-> context]))
  /\ out' = IF message.t # "string" \/ StrLen(message) = 0
            THEN <<>>
            ELSE <<SendReport(JsObj([message |-> sanitizedMessage(message),
                                     context |-> validContext(context),
                                     timestamp |-> JsNum(now)]))>>
  /\ UNCHANGED <<now, mainVars, fcVars, blVars, wsVars, plVars>>

NextPreload ==
  \/ \E message \in ReportMessages, context \in ReportContexts : reportError(message, context)
  \/ \E t \in Titles : TitleMutation(t)
  \/ setupDOMObserver
  \/ \E n \in DomCounts : DomChanged(n)
  \/ DomPollTick
  \/ \E count \in BridgeCounts : sendUnreadCount(count)

SpecPreload == InitWindows /\ [][NextPreload]_vars

\* The unread-count messages the last step sent
UnreadSent == {i \in DOMAIN out : out[i].k = "ipcRenderer.send" /\ out[i].s[1] = UNREAD_COUNT_UPDATE}

\* C19: every unread-count message the bridge sends, from the title observer, the
\* DOM poll or sendUnreadCount, carries an integer count from 0 to 9999.
C19_SentCountInRange ==
  \A i \in UnreadSent : out[i].n >= 0 /\ out[i].n <= MAX_UNREAD_COUNT

\* C20: on a title mutation the title observer sends a message iff the parsed
\* count differs from the count it reported last, and it never sends the same
\* count twice in a row, whatever DOM polls and sendUnreadCount calls come in
\* between.
C20_TitleDedupAtSource ==
  [][ev'.op = "title-mutation"
       => /\ (\E i \in UnreadSent' : out'[i].s[2] = "title")
               <=> parseUnreadFromTitle(title') # titleSent[Len(titleSent)]
          /\ \A i \in 1..(Len(titleSent') - 1) : titleSent'[i] # titleSent'[i + 1]
    ]_vars

\* The last step threw an exception out of its handler
Threw == \E i \in DOMAIN out : out[i].k = "throw"

\* C21: sendUnreadCount(count) sends exactly one unread-count message, carrying
\* count, when count is an integer from 0 to 9999; for every other value it sends
\* nothing and throws nothing.
C21_SendUnreadCountFailClosed ==
  ev.op = "sendUnreadCount"
    => /\ ~Threw
       /\ IF ev.arg.t = "number" /\ ~ev.arg.frac /\ ev.arg.n >= 0 /\ ev.arg.n <= 9999
          THEN /\ Cardinality(UnreadSent) = 1
               /\ \A i \in UnreadSent : out[i].n = ev.arg.n
          ELSE \A i \in DOMAIN out : out[i].k # "ipcRenderer.send"

\* C21 witness: the count 10000 was passed and nothing was sent
C21_Witness ==
  /\ ev.op = "sendUnreadCount"
  /\ ev.arg = JsNum(10000)
  /\ UnreadSent = {}
  /\ out # <<>>

\* The error reports the last step sent
ReportsSent == {i \in DOMAIN out : out[i].k = "ipcRenderer.send" /\ out[i].s[1] = ERROR_REPORT}

\* C22: reportError never throws; for a non-empty string message it sends one
\* report whose message is the first 1000 characters of the given one and whose
\* context is the given one if that is in the enum and unknown otherwise; every
\* report it sends passes isValidErrorReportPayload.
C22_ReportErrorSanitizes ==
  ev.op = "reportError"
    => LET message == ev.arg.o.message
           context == ev.arg.o.context
       IN
       /\ ~Threw
       /\ (message.t = "string" /\ StrLen(message) > 0) => Cardinality(ReportsSent) = 1
       /\ \A i \in ReportsSent :
            LET sent == out[i].payload IN
            /\ isValidErrorReportPayload(sent)
            /\ StrLen(sent.o.message) = Min2(StrLen(message), 1000)
            /\ StrLen(message) <= 1000 => sent.o.message = message
            /\ sent.o.context =
                 IF context \in {JsStr(<<"dom-observer">>), JsStr(<<"title-observer">>),
                                 JsStr(<<"ipc">>), JsStr(<<"unknown">>)}
                 THEN context
                 ELSE JsStr(<<"unknown">>)

\* C22 witness: a message longer than the mediator accepts was reported with a
\* context outside the enum, and the report sent is valid
C22_Witness ==
  /\ ev.op = "reportError"
  /\ ev.arg.o.message.t = "string"
  /\ StrLen(ev.arg.o.message) > MAX_ERROR_MESSAGE_LENGTH
  /\ ev.arg.o.context = JsStr(<<"renderer">>)
  /\ \E i \in ReportsSent : isValidErrorReportPayload(out[i].payload)

(***************************************************************************)
(* The unread-count channel of the mediator, with the tray behind it       *)
(***************************************************************************)
\* The values a renderer can put in the count field: 0, 9999, -1, 10000, 3.5, "5"
UnreadCountValues ==
  {JsNum(0), JsNum(MAX_UNREAD_COUNT), JsNum(-1), JsNum(MAX_UNREAD_COUNT + 1), JsHalf(3),
   JsStr(<<"5">>)}

\* The first argument of a message on the unread-count channel
UnreadPayloads == {JsNull} \cup {JsObj([count |-> c]) : c \in UnreadCountValues}

NextUnread ==
  \/ Tick(TRAY_UPDATE_DEBOUNCE_MS, MaxTrayNow)
  \/ \E sender \in {"alive", "destroyed"}, payload \in UnreadPayloads :
       IpcMessage(UNREAD_COUNT_UPDATE, sender, payload)
  \/ DebounceFire

SpecUnread == InitWindows /\ [][NextUnread]_vars

\* A number that is an integer between 0 and 9999
IntegerInRange(v) == v.t = "number" /\ ~v.frac /\ v.n >= 0 /\ v.n <= 9999

\* The message reached updateUnreadCount: the call was noted, a timer was scheduled
\* or cancelled, or the tray controller rejected the value itself
ForwardedToTray ==
  \/ lastCall' # lastCall
  \/ trayTimers' # trayTimers
  \/ debounceTimeout' # debounceTimeout
  \/ \E i \in DOMAIN out' : out'[i] = Warn("[Tray] Invalid unread count")

\* C23: isValidUnreadCount holds exactly for a number that is an integer with
\* 0 <= v <= 9999, and a message on the unread-count channel reaches the tray
\* controller's updateUnreadCount only when its count passes that validator.
C23_ValidatorGuardsTray ==
  [][(ev'.op = "ipc" /\ ev'.ch = UNREAD_COUNT_UPDATE) =>
       /\ ev'.arg.t = "object" =>
            (isValidUnreadCount(Field(ev'.arg, "count")) <=> IntegerInRange(Field(ev'.arg, "count")))
       /\ ForwardedToTray =>
            /\ ev'.arg.t = "object"
            /\ IntegerInRange(Field(ev'.arg, "count"))
    ]_vars

\* C23 witness: a count of 9999 was accepted and its update scheduled
C23_Witness ==
  /\ ev.op = "ipc"
  /\ ev.ch = UNREAD_COUNT_UPDATE
  /\ ev.arg = JsObj([count |-> JsNum(MAX_UNREAD_COUNT)])
  /\ lastCall = <<[count |-> MAX_UNREAD_COUNT, at |-> now]>>
  /\ \E t \in trayTimers : t.count = MAX_UNREAD_COUNT

(***************************************************************************)
(* Properties of the title parser                                          *)
(***************************************************************************)
\* The title starts with "(N)" or "(N+)", N a run of digits
LeadingCount(t) ==
  /\ Len(t) >= 3
  /\ t[1] = Lit("(")
  /\ t[2].t = "digits"
  /\ \/ t[3] = Lit(")")
     \/ (Len(t) >= 4 /\ t[3] = Lit("+") /\ t[4] = Lit(")"))

\* C24: after a title mutation the count parsed from the title (the one handleTitleChange
\* keeps as lastUnreadCount) is N when the title starts with "(N)" or "(N+)", and 0 when
\* the title has no leading parenthesized number.
C24_TitleParsesToN ==
  ev.op = "title-mutation" =>
    lastUnreadCount = (IF LeadingCount(title) THEN title[2].n ELSE 0)

\* C24 amended: the parsed count is N when the title starts with "(N)" or "(N+)" and
\* N <= 9999, and 0 when N > 9999 or the title has no leading parenthesized number.
C24_TitleParsesToNInRange ==
  ev.op = "title-mutation" =>
    lastUnreadCount = (IF LeadingCount(title) /\ title[2].n <= 9999 THEN title[2].n ELSE 0)

\* C24 witness: the title "(10000) Messenger" was set after a count of 12 and parsed to 0
C24_Witness ==
  /\ ev.op = "title-mutation"
  /\ LeadingCount(title)
  /\ title[2].n > 9999
  /\ lastUnreadCount = 0
  /\ titleSent = <<12, 0>>

(***************************************************************************)
(* The minimize-to-tray setting across a restart of the application        *)
(***************************************************************************)
NextRestart ==
  \/ Tick(RATE_LIMIT_WINDOW_MS, MaxIpcNow)
  \/ \E payload \in Payloads("minimize-to-tray") : IpcMessage("minimize-to-tray", "alive", payload)
  \/ CloseRequest
  \/ BeforeQuit
  \/ AppQuit
  \/ ProcessExit
  \/ Launch

SpecRestart == InitWindows /\ [][NextRestart]_vars

\* C25: the minimize-to-tray setting survives a restart: the value the close policy
\* consults in the new process is the last value accepted before the restart.
C25_SettingSurvivesRestart ==
  [][ev'.op = "launch" => minimizeToTray' = minimizeToTray]_vars

(***************************************************************************)
(* Focus notifications: the host's message, the webContents it goes to,   *)
(* and the focus callbacks of the bridge of the embedded view             *)
(***************************************************************************)
MaxRegs == 3
WINDOW_FOCUS_CHANGED == "window:focus-changed"

\* The values a page passes to messengerBridge.onFocusChange: two functions, one of
\* which throws when called, and a value that is not a function
Callbacks == {"f", "thrower", "notAFunction"}
IsFunction(cb) == cb # "notAFunction"

\* The elements of a Set kept in insertion order
Elements(s) == {s[i] : i \in DOMAIN s}

\* Set.prototype.add
SetAdd(s, x) == IF x \in Elements(s) THEN s ELSE Append(s, x)

\* Set.prototype.delete
SetDelete(s, x) == SelectSeq(s, LAMBDA y : y # x)

\* messengerBridge.onFocusChange(callback): the page keeps the returned closure
onFocusChange(cb) ==
  /\ proc = "running"
  /\ regCount < MaxRegs
  /\ regCount' = regCount + 1
  /\ ev' = Event("onFocusChange", "", "", JsStr(<<cb>>))
  /\ IF ~IsFunction(cb)
     THEN /\ out' = <<Warn("[Preload] Invalid focus callback")>>
          /\ UNCHANGED <<focusChangeListeners, registrations>>
     ELSE /\ focusChangeListeners' = SetAdd(focusChangeListeners, cb)
          /\ registrations' = registrations \cup {[id |-> regCount + 1, cb |-> cb]}
          /\ out' = <<>>
  /\ UNCHANGED <<now, mainVars, blVars, wsVars, plVars, inFlight>>

\* The page calls the closure a registration returned
Unregister(r) ==
  /\ proc = "running"
  /\ r \in registrations
  /\ registrations' = registrations \ {r}
  /\ focusChangeListeners' = SetDelete(focusChangeListeners, r.cb)
  /\ ev' = Event("unregister", "", "", JsStr(<<r.cb>>))
  /\ out' = <<>>
  /\ UNCHANGED <<now, mainVars, blVars, wsVars, plVars, regCount, inFlight>>

\* One call of a focus callback
Invoke(cb, focused) == [k |-> "listener", s |-> <<cb>>, n |-> 0, focused |-> focused]

\* for (const listener of focusChangeListeners) try { listener(focused) } catch { console.error }
RECURSIVE dispatch(_, _)
dispatch(ls, focused) ==
  IF ls = <<>> THEN <<>>
  ELSE <<Invoke(Head(ls), focused)>>
       \o (IF Head(ls) = "thrower"
           THEN <<[k |-> "console.error", s |-> <<"[Preload] Focus listener error">>, n |-> 0]>>
           ELSE <<>>)
       \o dispatch(Tail(ls), focused)

\* The listener setupFocusListener puts on window:focus-changed, run on one payload
focusListener(payload) ==
  IF payload.t = "object" /\ Field(payload, "focused").t = "boolean"
  THEN dispatch(focusChangeListeners, Field(payload, "focused").b)
  ELSE <<>>

\* sendToRenderer(channel, payload) as a message in flight: it is addressed to
\* mainWindow.webContents, the page of the title bar
SentToRenderer(o, payload) ==
  IF \E i \in DOMAIN o : o[i].k = "mainWindow.webContents.send"
  THEN <<[to |-> "mainWindow", channel |-> WINDOW_FOCUS_CHANGED, payload |-> payload]>>
  ELSE <<>>

\* window.on('focus') / window.on('blur') with the message it sends put in flight
WindowFocusChanged(focused) ==
  /\ Len(inFlight) < MaxInFlight
  /\ FocusChangeHost(focused)
  /\ inFlight' = inFlight \o SentToRenderer(out', JsObj([focused |-> JsBool(focused)]))
  /\ UNCHANGED <<blVars, wsVars, plVars, focusChangeListeners, registrations, regCount>>

\* The oldest message in flight arrives at its webContents.  preload.ts runs in the
\* embedded view (createMessengerView) and listens on window:focus-changed there; the
\* main window's page runs the title bar preload, which listens on zoom-level-changed only.
RendererReceive ==
  /\ proc = "running"
  /\ inFlight # <<>>
  /\ inFlight' = Tail(inFlight)
  /\ LET m == Head(inFlight) IN
     /\ ev' = Event("renderer-receive", m.channel, m.to, m.payload)
     /\ out' = IF m.to = "messengerView" /\ m.channel = WINDOW_FOCUS_CHANGED
               THEN focusListener(m.payload)
               ELSE <<>>
  /\ UNCHANGED <<now, mainVars, blVars, wsVars, plVars, focusChangeListeners, registrations, regCount>>

NextFocus ==
  \/ \E cb \in Callbacks : onFocusChange(cb)
  \/ \E r \in registrations : Unregister(r)
  \/ \E focused \in BOOLEAN : WindowFocusChanged(focused)
  \/ RendererReceive

SpecFocus == InitWindows /\ [][NextFocus]_vars

\* The number of calls of cb with the focus state focused in the output o
Invocations(o, cb, focused) == Cardinality({i \in DOMAIN o : o[i] = Invoke(cb, focused)})

\* C26: every focus change of the main window puts one window:focus-changed message in
\* flight, the message arrives in the embedded view, whose bridge holds the focus
\* callbacks, and on its arrival every registered callback is called exactly once with
\* the new focus state.
C26_FocusReachesCallbacks ==
  [][/\ ev'.op = "focus-change" =>
          /\ Len(inFlight') = Len(inFlight) + 1
          /\ inFlight'[Len(inFlight')].payload = JsObj([focused |-> JsBool(win'.focused)])
     /\ (ev'.op = "renderer-receive" /\ ev'.ch = WINDOW_FOCUS_CHANGED) =>
          /\ ev'.sender = "messengerView"
          /\ \A cb \in Elements(focusChangeListeners) :
               Invocations(out', cb, Field(ev'.arg, "focused").b) = 1
    ]_vars

(***************************************************************************)
(* The focus callbacks of the bridge on their own                          *)
(***************************************************************************)
\* The payloads a window:focus-changed message may carry
FocusPayloads ==
  {JsUndefined, JsNull, JsObj([focused |-> JsBool(TRUE)]), JsObj([focused |-> JsBool(FALSE)]),
   JsObj([focused |-> JsStr(<<"yes">>)])}

\* A window:focus-changed message arrives in the embedded view: the listener of
\* setupFocusListener runs
FocusMessage(payload) ==
  /\ proc = "running"
  /\ ev' = Event("focus-message", WINDOW_FOCUS_CHANGED, "messengerView", payload)
  /\ out' = focusListener(payload)
  /\ UNCHANGED <<now, mainVars, extVars>>

NextFocusListeners ==
  \/ \E cb \in Callbacks : onFocusChange(cb)
  \/ \E r \in registrations : Unregister(r)
  \/ \E payload \in FocusPayloads : FocusMessage(payload)

SpecFocusListeners == InitWindows /\ [][NextFocusListeners]_vars

\* C27: every registration whose unregister closure has not been called still has its
\* callback among the listeners, and a focus message calls the callback of every such
\* registration, also when another callback throws.
C27_RegistrationsIndependent ==
  /\ \A r \in registrations : r.cb \in Elements(focusChangeListeners)
  /\ (ev.op = "focus-message" /\ ev.arg \in {JsObj([focused |-> JsBool(b)]) : b \in BOOLEAN}) =>
       \A r \in registrations : Invocations(out, r.cb, ev.arg.o.focused.b) >= 1

(***************************************************************************)
(* The two debounce timers: the tray's and the window-state save's         *)
(***************************************************************************)
NextTimers ==
  \/ Tick(TRAY_UPDATE_DEBOUNCE_MS, MaxTrayNow)
  \/ \E count \in CallCounts : UpdateUnreadCountCall(count)
  \/ DebounceFire
  \/ saveWindowState
  \/ \E size \in WindowSizes : SaveStateFire(<<100, 100>>, size, FALSE)

SpecTimers == InitWindows /\ [][NextTimers]_vars

\* C28: at most one tray debounce timer and at most one window-state save timer is
\* pending; scheduling leaves the new timer as the only pending one of its mechanism;
\* and the timer whose callback runs is the one scheduled last, never a replaced one.
C28_SingleSlotTimers ==
  [][/\ Cardinality(trayTimers') <= 1
     /\ Cardinality(saveTimers') <= 1
     /\ (ev'.op = "updateUnreadCount" /\ debounceTimeout' # debounceTimeout) =>
          trayTimers' = {debounceTimeout'[1]}
     /\ ev'.op = "saveWindowState" => saveTimers' = {saveStateTimeout'[1]}
     /\ ev'.op = "debounce-fire" => \A t \in trayTimers \ trayTimers' : debounceTimeout = <<t>>
     /\ ev'.op = "save-state-fire" => \A t \in saveTimers \ saveTimers' : saveStateTimeout = <<t>>
    ]_vars

\* C28 witness: saveWindowState cancelled a save timer that was not yet due and set a
\* later one, while a tray debounce timer is pending
C28_Witness ==
  /\ ev.op = "saveWindowState"
  /\ \E i \in DOMAIN out : out[i].k = "clearTimeout" /\ out[i].n > now
                           /\ out[i].n < now + WINDOW_STATE_SAVE_DEBOUNCE_MS
  /\ saveTimers = {now + WINDOW_STATE_SAVE_DEBOUNCE_MS}
  /\ trayTimers # {}

(***************************************************************************)
(* Privileged operations around the end of the main window                 *)
(***************************************************************************)
WindowControlChannels == {WINDOW_MINIMIZE, WINDOW_MAXIMIZE, WINDOW_CLOSE}

\* The number of window-control messages counted by the rate limiter
MaxControlMessages == 2
Counted(channel) == IF channel \in DOMAIN rateLimiter THEN rateLimiter[channel].count ELSE 0
ControlMessages == Counted(WINDOW_MINIMIZE) + Counted(WINDOW_MAXIMIZE) + Counted(WINDOW_CLOSE)

NextGone ==
  \/ Tick(TRAY_UPDATE_DEBOUNCE_MS, MaxTrayNow)
  \/ /\ ControlMessages < MaxControlMessages
     /\ \E channel \in WindowControlChannels : IpcMessage(channel, "alive", JsUndefined)
  \/ \E count \in {JsNum(1), JsNum(2)} : UpdateUnreadCountCall(count)
  \/ DebounceFire
  \/ CloseRequest

SpecGone == InitWindows /\ [][NextGone]_vars

\* A call made on the main window
OnMainWindow(c) ==
  c.k \in {"mainWindow.minimize", "mainWindow.maximize", "mainWindow.unmaximize",
           "mainWindow.close", "mainWindow.webContents.send", "mainWindow.setOverlayIcon",
           "mainWindow.flashFrame", "mainWindow.show", "mainWindow.focus"}

\* C29: with the main window destroyed or its reference dropped, a window-control
\* message, sendToRenderer and a firing tray debounce timer make no call on the window
\* and throw nothing.
C29_NoOpWhenWindowGone ==
  [][/\ (win.destroyed \/ ~ipcRefs.mainWindow) => sendToRenderer(WINDOW_FOCUS_CHANGED) = <<>>
     /\ (/\ win.destroyed \/ ~ipcRefs.mainWindow
         /\ \/ ev'.op = "ipc" /\ ev'.ch \in WindowControlChannels
            \/ ev'.op = "debounce-fire")
          => /\ ~Threw'
             /\ \A i \in DOMAIN out' : ~OnMainWindow(out'[i])
    ]_vars

(***************************************************************************)
(* The points where the host parses a navigation target                    *)
(***************************************************************************)
\* allowedPatterns.some(pattern => pattern.test(hostname)) of the window-open handler
isAllowedOpen(hostname) ==
  \/ hostname \in {<<"messenger", ".", "com">>, <<"www", ".", "messenger", ".", "com">>}
  \/ EndsWith(hostname, <<".", "messenger", ".", "com">>)
  \/ EndsWith(hostname, <<".", "fbcdn", ".", "net">>)

\* The handler given to setWindowOpenHandler: its console output, its calls and the
\* action it returns
windowOpenHandler(url) ==
  IF StartsWith(url, <<"about:">>)
  THEN <<Log("[Window] Allowing about: URL"), Call("return", <<"allow">>)>>
  ELSE IF ~ParseURL(url).ok
  THEN <<[k |-> "console.error", s |-> <<"[Window] Error parsing URL">>, n |-> 0],
         Call("return", <<"deny">>)>>
  ELSE IF /\ isAllowedOpen(ParseURL(url).hostname)
          /\ \/ Includes(url, <<"/", "videocall">>)
             \/ Includes(url, <<"/", "call">>)
             \/ Includes(url, <<"/", "room">>)
  THEN <<Log("[Window] Allowing call window"), Call("return", <<"allow">>)>>
  ELSE IF isAllowedOpen(ParseURL(url).hostname)
  THEN <<Log("[Window] Loading in current view"), Call("loadURL", url), Call("return", <<"deny">>)>>
  ELSE <<Log("[Window] Opening externally"), Call("shell.openExternal", url),
         Call("return", <<"deny">>)>>

\* The page of the embedded view asks for a new window
WindowOpen(url) ==
  /\ proc = "running"
  /\ ~viewDestroyed
  /\ ev' = Event("window-open", "", "", JsStr(url))
  /\ out' = <<Log("[Window] New window requested")>> \o windowOpenHandler(url)
  /\ UNCHANGED <<now, mainVars, extVars>>

\* Strings that new URL rejects: no scheme, and a scheme without a host
MalformedUrls == {<<"not", " ", "a", " ", "url">>, <<"https", "://">>}

\* The navigation targets: URLs that parse, and strings that do not
TargetUrls ==
  {MESSENGER_URL \o <<"/">>, MESSENGER_URL \o <<"/", "call">>, FACEBOOK_LOGIN_URL,
   <<"https", "://", "example", ".", "com", "/">>} \cup MalformedUrls

NextParse ==
  \/ \E url \in TargetUrls : ViewWillNavigate(url)
  \/ \E url \in TargetUrls : ChildWillNavigate(url)
  \/ \E url \in TargetUrls : DidNavigate(url)
  \/ \E i \in 1..MaxInFlight : CookiesResolved(i)
  \/ \E url \in TargetUrls \cup {<<"about:", "blank">>} : WindowOpen(url)

SpecParse == InitWindows /\ [][NextParse]_vars

\* C30: a target that does not parse is denied at each of the four points: the
\* handler throws nothing and opens nothing externally, will-navigate prevents the
\* navigation, and the window-open handler returns deny.
C30_MalformedUrlDenied ==
  (ev.op \in {"will-navigate", "did-navigate", "window-open"} /\ ev.arg.s \in MalformedUrls)
    => /\ ~Threw
       /\ \A i \in DOMAIN out : out[i].k # "shell.openExternal"
       /\ ev.op = "will-navigate" => Prevented
       /\ ev.op = "window-open" => \E i \in DOMAIN out : out[i] = Call("return", <<"deny">>)

(***************************************************************************)
(* The window's geometry, its debounced save and the close of the window   *)
(***************************************************************************)
\* window.on('move') / window.on('resize'): the window has new bounds; the save is
\* scheduled unless the window is maximized
WindowMoved(pos, size) ==
  /\ proc = "running"
  /\ ~win.destroyed
  /\ winBounds # [pos |-> pos, size |-> size]
  /\ winBounds' = [pos |-> pos, size |-> size]
  /\ ev' = Event("move", "", "", JsUndefined)
  /\ out' = <<>>
  /\ IF win.maximized
     THEN UNCHANGED <<saveTimers, saveStateTimeout>>
     ELSE /\ saveTimers' = ClearSaveTimeout \cup {now + WINDOW_STATE_SAVE_DEBOUNCE_MS}
          /\ saveStateTimeout' = <<now + WINDOW_STATE_SAVE_DEBOUNCE_MS>>
  /\ UNCHANGED <<now, mainVars, fcVars, blVars, plVars, windowState, displays, returned>>

\* A close request with both close listeners: the one of attachWindowStateListeners
\* (clearTimeout, saveStateTimeout = null, saveWindowState) and, after it, the close
\* policy of main.ts
WindowClose ==
  /\ CloseRequestHost
  /\ saveTimers' = ClearSaveTimeout \cup {now + WINDOW_STATE_SAVE_DEBOUNCE_MS}
  /\ saveStateTimeout' = <<now + WINDOW_STATE_SAVE_DEBOUNCE_MS>>
  /\ UNCHANGED <<fcVars, blVars, plVars, windowState, winBounds, displays, returned>>

NextClose ==
  \/ Tick(WINDOW_STATE_SAVE_DEBOUNCE_MS \div 2, MaxSaveNow)
  \/ \E pos \in {<<100, 100>>, <<0, 1070>>}, size \in WindowSizes : WindowMoved(pos, size)
  \/ \E enabled \in BOOLEAN : IpcMessage("minimize-to-tray", "alive", JsBool(enabled))
  \/ WindowClose
  \/ SaveStateFire(winBounds.pos, winBounds.size, win.maximized)

SpecClose == InitWindows /\ [][NextClose]_vars

\* The persisted record holds the geometry the window has (had, once destroyed)
StoredIsWindowBounds ==
  /\ windowState.x = <<winBounds.pos[1]>>
  /\ windowState.y = <<winBounds.pos[2]>>
  /\ windowState.width = winBounds.size[1]
  /\ windowState.height = winBounds.size[2]

\* C31: once the main window has been closed by a close that was not intercepted and no
\* save is pending any more, the persisted window-state record holds the geometry the
\* window had at the close.
C31_FinalSaveOnClose ==
  (win.destroyed /\ saveTimers = {}) => StoredIsWindowBounds

(***************************************************************************)
(* The rate limiter and messages that fail validation                      *)
(***************************************************************************)
\* C32: a minimize-to-tray message from a live sender that passes the rate-limit gate
\* and fails the payload validation changes no setting but is counted in the window
\* like a valid one; a valid message that finds the count at 10 is dropped.
C32_InvalidMessagesCount ==
  [][(ev'.op = "ipc" /\ ev'.sender = "alive" /\ ev'.ch = "minimize-to-tray") =>
       LET ch == ev'.ch
           full == InWindow(ch) /\ rateLimiter[ch].count >= RATE_LIMIT_MAX_CALLS
       IN
       /\ (~full /\ ev'.arg.t # "boolean") =>
            /\ out' = <<Warn("[IPC] Invalid minimize-to-tray value")>>
            /\ minimizeToTray' = minimizeToTray
            /\ ch \in DOMAIN rateLimiter'
            /\ rateLimiter'[ch].count = (IF InWindow(ch) THEN rateLimiter[ch].count + 1 ELSE 1)
       /\ (full /\ ev'.arg.t = "boolean") =>
            /\ out' = RateLimitedOut
            /\ minimizeToTray' = minimizeToTray
    ]_vars

\* C32 witness: a message with an invalid payload was rejected by the validation and
\* took the tenth place of the window
C32_Witness ==
  /\ ev.op = "ipc" /\ ev.sender = "alive" /\ ev.ch = "minimize-to-tray"
  /\ ev.arg.t # "boolean"
  /\ out = <<Warn("[IPC] Invalid minimize-to-tray value")>>
  /\ InWindow(ev.ch)
  /\ rateLimiter[ev.ch].count = RATE_LIMIT_MAX_CALLS

(***************************************************************************)
(* From the page title to the tray: the title observer of the view, the    *)
(* mediator's unread-count channel and the tray's debounce                 *)
(***************************************************************************)
\* The titles the page alternates between
LiveTitles ==
  {<<Lit("Messenger")>>,
   <<Lit("("), Digits(1), Lit(")"), Lit(" Messenger")>>,
   <<Lit("("), Digits(12), Lit("+"), Lit(")"), Lit(" Messenger")>>}

\* ipcRenderer.send delivers the message the title observer sent in the last step to
\* the mediator's listener of the channel
UnreadDelivered ==
  \E i \in UnreadSent :
    IpcMessage(UNREAD_COUNT_UPDATE, "alive",
               JsObj([count |-> JsNum(out[i].n), timestamp |-> JsNum(now),
                      source |-> JsStr(<<out[i].s[2]>>)]))

\* A message is delivered before anything else happens
NextLive ==
  \/ UnreadSent = {} /\ Tick(TRAY_UPDATE_DEBOUNCE_MS, MaxTrayNow)
  \/ UnreadSent = {} /\ \E t \in LiveTitles : TitleMutation(t)
  \/ UnreadDelivered
  \/ UnreadSent = {} /\ DebounceFire

SpecLive == InitWindows /\ [][NextLive]_vars

\* C33: once the title has stopped changing, that is with every message delivered and
\* no debounce timer pending, the tray's stored unreadCount is the count parsed from
\* the title.
C33_TrayCounterLive ==
  (UnreadSent = {} /\ trayTimers = {}) => currentState.unreadCount = parseUnreadFromTitle(title)

(***************************************************************************)
(* The MutationObservers of setupTitleObserver                             *)
(***************************************************************************)
\* Head observers a head mutation may find registered
MaxObservers == 2

\* setupTitleObserver() with a title element present: a new observer on the current
\* title element and a new head observer whose closure holds that element and observer
setupTitleObserver(o) ==
  [o EXCEPT !.title = Append(@, [el |-> o.element, connected |-> TRUE]),
            !.head = Append(@, [el |-> o.element, obs |-> Len(o.title) + 1, connected |-> TRUE])]

\* The callbacks of the head observers hs run for one childList record, oldest first:
\* one that finds a title element other than the one of its closure disconnects the
\* title observer of its closure and calls setupTitleObserver()
RECURSIVE headObserver(_, _)
headObserver(o, hs) ==
  IF hs = <<>> THEN o
  ELSE LET h == Head(hs) IN
       IF h.connected /\ o.element # h.el
       THEN headObserver(setupTitleObserver([o EXCEPT !.title[h.obs].connected = FALSE]), Tail(hs))
       ELSE headObserver(o, Tail(hs))

\* A childList mutation of head; with replaced, the title element is replaced by a new
\* one whose text is t.  Each setupTitleObserver() ends with handleTitleChange().
HeadMutation(replaced, t) ==
  /\ proc = "running"
  /\ Len(observers.head) <= MaxObservers
  /\ replaced \/ t = title
  /\ title' = t
  /\ ev' = Event("head-mutation", "", "", JsBool(replaced))
  /\ LET o == [observers EXCEPT !.element = IF replaced THEN @ + 1 ELSE @]
         count == parseUnreadFromTitle(t)
     IN
     /\ observers' = headObserver(o, o.head)
     /\ IF Len(observers'.head) > Len(observers.head) /\ count # lastUnreadCount
        THEN /\ lastUnreadCount' = count
             /\ titleSent' = LastTwo(Append(titleSent, count))
             /\ out' = <<Log("[Preload] Title element replaced, re-observing"),
                         SendUnread(count, "title"), Log("[Preload] Unread count")>>
        ELSE /\ UNCHANGED <<lastUnreadCount, titleSent>>
             /\ out' = IF Len(observers'.head) > Len(observers.head)
                       THEN <<Log("[Preload] Title element replaced, re-observing")>> ELSE <<>>
  /\ UNCHANGED <<now, mainVars, fcVars, blVars, wsVars, domCount, domInterval>>

NextObservers ==
  \/ \E t \in Titles : TitleMutation(t)
  \/ \E replaced \in BOOLEAN, t \in Titles : HeadMutation(replaced, t)

SpecObservers == InitWindows /\ [][NextObservers]_vars

\* The title observers that are connected, and those among them on the current element
ConnectedTitleObservers == {i \in DOMAIN observers.title : observers.title[i].connected}
ConnectedHeadObservers == {i \in DOMAIN observers.head : observers.head[i].connected}

\* C34: whatever head mutations and title replacements happened, one title observer
\* and one head observer are connected, and the connected title observer is on the
\* current title element (so that a title mutation runs handleTitleChange once).
C34_OneObserverEach ==
  /\ Cardinality(ConnectedTitleObservers) = 1
  /\ Cardinality(ConnectedHeadObservers) = 1
  /\ \A i \in ConnectedTitleObservers : observers.title[i].el = observers.element

(***************************************************************************)
(* The channels of the exposed bridge APIs and the channels of the mediator*)
(***************************************************************************)
\* Calls of exposed APIs in one run
MaxBridgeCalls == 2

\* The exposed objects: messengerBridge and electronAPI of the view's preload,
\* electronAPI of the title bar's preload
BridgeApis == {"messengerBridge", "view.electronAPI", "titleBar.electronAPI"}

\* The channel a method of an exposed API sends on
BridgeChannel(api, method) ==
  CASE api = "messengerBridge" ->
         (CASE method = "sendUnreadCount" -> UNREAD_COUNT_UPDATE
            [] method = "reportError" -> ERROR_REPORT)
    [] api = "view.electronAPI" ->
         (CASE method = "minimizeWindow" -> "window-minimize"
            [] method = "maximizeWindow" -> "window-maximize"
            [] method = "closeWindow" -> "window-close"
            [] method = "zoomIn" -> "zoom-in"
            [] method = "zoomOut" -> "zoom-out"
            [] method = "zoomReset" -> "zoom-reset")
    [] api = "titleBar.electronAPI" ->
         (CASE method = "minimizeWindow" -> "window:minimize"
            [] method = "maximizeWindow" -> "window:maximize"
            [] method = "closeWindow" -> "window:close"
            [] method = "zoomIn" -> "zoom-in"
            [] method = "zoomOut" -> "zoom-out"
            [] method = "zoomReset" -> "zoom-reset"
            [] method = "changeTheme" -> "theme:change"
            [] method = "openExternal" -> "open-external"
            [] method = "setMinimizeToTray" -> "minimize-to-tray")

\* The sending methods of an exposed API
BridgeMethods(api) ==
  CASE api = "messengerBridge" -> {"sendUnreadCount", "reportError"}
    [] api = "view.electronAPI" ->
         {"minimizeWindow", "maximizeWindow", "closeWindow", "zoomIn", "zoomOut", "zoomReset"}
    [] api = "titleBar.electronAPI" ->
         {"minimizeWindow", "maximizeWindow", "closeWindow", "zoomIn", "zoomOut", "zoomReset",
          "changeTheme", "openExternal", "setMinimizeToTray"}

\* The argument a method sends with a valid call
BridgePayload(method) ==
  CASE method = "sendUnreadCount" -> JsObj([count |-> JsNum(1)])
    [] method = "reportError" ->
         JsObj([message |-> JsStr(<<"failed">>), context |-> JsStr(<<"unknown">>),
                timestamp |-> JsNum(now)])
    [] method = "changeTheme" -> JsObj([theme |-> JsStr(<<"dark">>)])
    [] method = "openExternal" -> JsStr(MESSENGER_URL)
    [] method = "setMinimizeToTray" -> JsBool(TRUE)
    [] OTHER -> JsUndefined

RECURSIVE SumCounts(_)
SumCounts(S) ==
  IF S = {} THEN 0
  ELSE LET c == CHOOSE c \in S : TRUE IN rateLimiter[c].count + SumCounts(S \ {c})

\* ipcMain emits a message of the channel: its listener runs, if it has one
Emit(channel, sender, payload) ==
  IF channel \in listeners
  THEN IpcMessage(channel, sender, payload)
  ELSE /\ proc # "exited"
       /\ ev' = Event("ipc", channel, sender, payload)
       /\ out' = <<>>
       /\ UNCHANGED <<now, mainVars, extVars>>

\* The page calls a method of an exposed API: ipcRenderer.send(channel, ...)
BridgeCall(api, method) ==
  /\ SumCounts(DOMAIN rateLimiter) < MaxBridgeCalls
  /\ Emit(BridgeChannel(api, method), "alive", BridgePayload(method))

NextBridge ==
  \/ Tick(RATE_LIMIT_WINDOW_MS, MaxIpcNow)
  \/ \E api \in BridgeApis : \E method \in BridgeMethods(api) : BridgeCall(api, method)

SpecBridge == InitWindows /\ [][NextBridge]_vars

\* C35: every message an exposed API sends is on a registered channel and goes through
\* the wrapped listener of that channel, which counts it in its rate-limit window.
C35_BridgeChannelsRegistered ==
  [][(ev'.op = "ipc" /\ ev'.sender = "alive") =>
       /\ ev'.ch \in RegisteredChannels
       /\ ev'.ch \in DOMAIN rateLimiter'
       /\ rateLimiter'[ev'.ch].count >= 1]_vars

(***************************************************************************)
(* Messages after unregisterIpcHandlers                                    *)
(***************************************************************************)
\* Messages counted by the rate limiter at one time
MaxMessages == 2

\* A valid first argument of a message of the channel
ValidPayload(channel) ==
  CASE channel = UNREAD_COUNT_UPDATE -> JsObj([count |-> JsNum(1)])
    [] channel = THEME_CHANGE -> JsObj([theme |-> JsStr(<<"dark">>)])
    [] channel = "open-external" -> JsStr(MESSENGER_URL)
    [] channel = "minimize-to-tray" -> JsBool(TRUE)
    [] OTHER -> JsUndefined

NextUnregister ==
  \/ \E channel \in RegisteredChannels, sender \in {"alive", "destroyed"} :
       /\ SumCounts(DOMAIN rateLimiter) < MaxMessages
       /\ Emit(channel, sender, ValidPayload(channel))
  \/ CloseRequest
  \/ BeforeQuit
  \/ AppQuit

SpecUnregister == InitWindows /\ [][NextUnregister]_vars

\* C36: once unregisterIpcHandlers has run, a message on a channel that
\* registerIpcHandlers registered runs no listener: nothing is printed or called and
\* the rate limiter and the minimize-to-tray setting stay as they are.
C36_UnregisterRemovesAll ==
  [][(proc = "cleaned" /\ ev'.op = "ipc" /\ ev'.ch \in RegisteredChannels) =>
       /\ out' = <<>>
       /\ rateLimiter' = rateLimiter
       /\ minimizeToTray' = minimizeToTray]_vars

(***************************************************************************)
(* Login detection and hosts that contain the messaging domain's name      *)
(***************************************************************************)
\* URLs of hosts outside the messaging domain whose name contains "messenger.com"
LookalikeUrls ==
  {<<"https", "://", "messenger", ".", "com", ".", "evil", ".", "net", "/">>,
   <<"https", "://", "not", "messenger", ".", "com", "/">>}

NextLookalike ==
  \/ NextLogin
  \/ \E url \in LookalikeUrls : DidNavigate(url)

SpecLookalike == InitWindows /\ [][NextLookalike]_vars

\* C37: hasLoggedIn goes from false to true only in a did-navigate listener (at its
\* start or after its cookie read) whose URL has the messaging domain or one of its
\* subdomains as host.
C37_LoggedInOnlyOnMessengerHost ==
  [][(~hasLoggedIn /\ hasLoggedIn') =>
       /\ ev'.op \in {"did-navigate", "cookies-resolved"}
       /\ IsMessengerHost(ParseURL(ev'.arg.s).hostname)]_vars

(***************************************************************************)
(* Redirect timers after the messaging domain has been reached             *)
(***************************************************************************)
\* C38: with hasLoggedIn true, a redirect timer that comes due loads nothing into the
\* view.
C38_NoRedirectOnceLoggedIn ==
  [][(hasLoggedIn /\ ev'.op = "redirect-fire") => out' = <<>>]_vars

(***************************************************************************)
(* A BrowserLogin instance used for a second login                         *)
(***************************************************************************)
\* startLogin() on the instance after its first login has completed: the fields are
\* assigned as in the first call, and isCleanedUp is not among them
startLoginAgain ==
  /\ proc = "running"
  /\ blHistory.started
  /\ browserLogin.isCleanedUp
  /\ ~browserLogin.resolvePromise
  /\ browserLogin' = [browserLogin EXCEPT !.resolvePromise = TRUE, !.loginWindow = "open",
                                          !.loading = TRUE,
                                          !.timeout = <<now + LOGIN_TIMEOUT_MS>>]
  /\ blHistory' = blHistory
  /\ ev' = Event("startLogin", "", "", JsUndefined)
  /\ out' = <<Call("loginWindow.loadURL", MESSENGER_URL)>>
  /\ UNCHANGED <<now, mainVars, fcVars, wsVars, plVars>>

NextLoginReuse ==
  \/ NextBrowserLogin
  \/ startLoginAgain

SpecLoginReuse == InitWindows /\ [][NextLoginReuse]_vars

\* C39: the promise of a startLogin call is unresolved only while the 5-minute timer
\* of the call is pending and not overdue, and once no promise is unresolved the
\* timer is cleared and the login window is closed; for the first call of an instance
\* and for a later one.
C39_EveryLoginResolves ==
  /\ browserLogin.resolvePromise
       => (browserLogin.timeout # <<>> /\ browserLogin.timeout[1] >= now)
  /\ (blHistory.started /\ ~browserLogin.resolvePromise)
       => (browserLogin.timeout = <<>> /\ browserLogin.loginWindow = "null")

====
